---- MODULE Spec2Model ----
(***************************************************************************)
(* Verification model of the crypto monitor's alert core:                  *)
(*   - the live evaluator  backend/monitoring_service.py                   *)
(*     (_check_and_trigger_alerts, run_single_symbol_update),              *)
(*   - the indicator library backend/indicators.py,                        *)
(*   - the historical scanner and hit-rate analyzer                        *)
(*     backend/historical_analyzer.py with backend/data_fetcher.py.        *)
(*                                                                         *)
(* Time is counted in whole minutes.  Floating-point values are modelled   *)
(* by exact integer / rational arithmetic (cross-multiplied comparisons).  *)
(* Python's None / a missing dict key is modelled by the empty set {} for  *)
(* optional scalars ({v} when present) and by a key missing from DOMAIN    *)
(* for dicts.                                                              *)
(***************************************************************************)
EXTENDS Integers, Sequences, FiniteSets, TLC

VARIABLES
    \* ---- live evaluator ------------------------------------------------
    alert_config,      \* the symbol's alert_config dict (mutated in place)
    now,               \* the wall clock, in minutes
    analysis_data,     \* the snapshot handed to the last evaluation
    triggered_alerts,  \* the list returned by the last evaluation
    raised,            \* TRUE iff the last evaluation ended in an exception
    n_evals,           \* number of evaluations made so far
    last_emitted,      \* history: trigger_key -> time of its last emitted alert
    \* ---- indicator library and historical scanner --------------------------
    historical_df,     \* the OHLCV frame: a sequence of bars, oldest first
    ind_params,        \* the keyword arguments of the indicator calls
    ind_series,        \* the signals of the full-series calls, per indicator
    ind_latest,        \* per indicator, bar t -> latest-only signal on bars 1..t
    ind_values,        \* the value series of the indicators that take a period
    \* ---- historical scanner and hit-rate analyzer ---------------------------
    request,           \* the arguments of the call being served
    pc,                \* where the call stands: which await it is suspended at
    hist_fetch,        \* how the history fetch ended (history variable)
    alerts_df,         \* the alerts handed to calculate_hit_rate
    fwd_fetch,         \* how the forward fetch ended, and the frame it returned
    fetches,           \* the calls of fetch_historical_data made so far, in order
    computed,          \* the indicator functions the scan has called
    result,            \* the alert records the call returned
    \* ---- backtester ------------------------------------------------------
    bt_df,             \* the frame handed to run_backtest
    bt_pc,             \* where run_backtest stands
    bt_i,              \* the loop index i of run_backtest
    active_signals,    \* the set active_signals of run_backtest
    bt_output,         \* the messages passed to output_callback, in order
    \* ---- shared services (robust_services.py) ------------------------------
    clock,             \* time.time(), in seconds
    requests_1min,     \* BinanceRateLimiter.requests_1min, oldest first
    requests_5min,     \* BinanceRateLimiter.requests_5min, oldest first
    manual_update_mode,\* BinanceRateLimiter.manual_update_mode
    admitted,          \* history: the calls of wait_if_needed that returned
    cache,             \* DataCache.cache: key -> CachedData
    cache_lock,        \* the holder of DataCache.lock, or "free"
    get_call           \* the call of DataCache.get in progress on the reader thread

liveVars == <<alert_config, now, analysis_data, triggered_alerts, raised,
              n_evals, last_emitted>>

indVars == <<ind_params, ind_series, ind_latest, ind_values>>

scanVars == <<request, pc, hist_fetch, alerts_df, fwd_fetch, fetches, computed,
             result>>

btVars == <<bt_df, bt_pc, bt_i, active_signals, bt_output>>

limiterVars == <<clock, requests_1min, requests_5min, manual_update_mode, admitted>>

cacheVars == <<cache, cache_lock, get_call>>

toolVars == <<btVars, limiterVars, cacheVars>>

vars == <<liveVars, historical_df, indVars, scanVars, toolVars>>

\* ------------------------------------------------------------------------
\* Generic helpers
\* ------------------------------------------------------------------------

\* dict.get(k) on a dict modelled as a function: {} when the key is missing
Has(d, k) == k \in DOMAIN d

\* the value of an optional scalar, or the default when it is missing
OrDefault(opt, dflt) == IF opt = {} THEN dflt ELSE CHOOSE v \in opt : TRUE

\* the set of elements of a sequence
Range(s) == { s[i] : i \in 1..Len(s) }

\* ------------------------------------------------------------------------
\* Bounds of the live model
\* ------------------------------------------------------------------------
MaxTime == 2
MaxEvals == 3

\* ------------------------------------------------------------------------
\* Live evaluator: configuration and snapshot inputs
\* ------------------------------------------------------------------------
Symbol == "BTCUSDT"

\* one entry of alert_config['conditions']: {'enabled': e, 'value': v}
\* (value = {} when the entry has no 'value' key)
Cond(e, v) == [enabled |-> e, value |-> v]

\* conditions.get(k, {}).get('enabled')
ConditionEnabled(conditions, k) == Has(conditions, k) /\ conditions[k].enabled

\* conditions[k]['value'] raises KeyError when the key is missing
ValueMissing(conditions, k) == conditions[k].value = {}

\* The conditions dicts the model starts from.
HiLoAndCrosses ==
    [ hilo_compra      |-> Cond(TRUE, {}),
      hilo_venda       |-> Cond(TRUE, {}),
      mme_cruz_morte   |-> Cond(TRUE, {}),
      mme_cruz_dourada |-> Cond(FALSE, {}) ]
PriceCrosses ==
    [ media_movel_cima  |-> Cond(TRUE, {17}),
      media_movel_baixo |-> Cond(TRUE, {}),
      mme_cruz_dourada  |-> Cond(TRUE, {}) ]
Thresholds ==
    [ rsi_sobrevendido  |-> Cond(TRUE, {30}),
      rsi_sobrecomprado |-> Cond(TRUE, {}),
      macd_cruz_alta    |-> Cond(TRUE, {}),
      macd_cruz_baixa   |-> Cond(FALSE, {}) ]
BandsAndLevels ==
    [ bollinger_abaixo |-> Cond(TRUE, {}),
      bollinger_acima  |-> Cond(FALSE, {}),
      PRECO_ABAIXO     |-> Cond(TRUE, {2}),
      preco_alto       |-> Cond(TRUE, {2}) ]
MissingValue ==
    [ rsi_sobrevendido |-> Cond(TRUE, {}),
      hilo_venda       |-> Cond(TRUE, {}) ]

\* an alert_config dict: cooldown = {} when 'alert_cooldown_minutes' is
\* missing; tc_form tells whether 'triggered_conditions' is a dict, a legacy
\* list or missing; a missing 'death_cross_active' reads as False
AlertConfig(conditions, cooldown, form) ==
    [ conditions |-> conditions,
      alert_cooldown_minutes |-> cooldown,
      tc_form |-> form,
      triggered_conditions |-> <<>>,
      death_cross_active |-> FALSE ]

\* The alert configurations the model starts from.
AlertConfigs ==
    { AlertConfig(HiLoAndCrosses, {2}, "dict"),
      AlertConfig(PriceCrosses, {1}, "absent"),
      AlertConfig(Thresholds, {}, "dict"),
      AlertConfig(BandsAndLevels, {2}, "list"),
      AlertConfig(MissingValue, {1}, "dict") }

AnyEnabled(conditions, ks) == \E k \in ks : ConditionEnabled(conditions, k)

\* The snapshot _analyze_symbol returns when there is no kline data:
\* every indicator key is missing, so .get() answers with its default.
DegradedSnapshot ==
    [ degraded |-> TRUE, price |-> 0, rsi_value |-> 50, macd_value |-> 0,
      mme_cross |-> "None", mme_200 |-> 0, bollinger_signal |-> "None",
      macd_signal |-> "None", hilo_signal |-> "None",
      media_movel_cross |-> <<>> ]

\* media_movel_cross holds only the periods whose signal is not "Nenhum"
CrossDicts ==
    { <<>>, (17 :> "Cruzamento de Alta"), (17 :> "Cruzamento de Baixa"),
      (200 :> "Cruzamento de Alta"),
      (17 :> "Cruzamento de Baixa") @@ (200 :> "Cruzamento de Alta") }

\* The full snapshots _analyze_symbol can return.  A field that no enabled
\* condition of `conditions` reads is left at its initial value.
Snapshots(conditions) ==
    { [ degraded |-> FALSE, price |-> p, rsi_value |-> r, macd_value |-> mv,
        mme_cross |-> mc, mme_200 |-> 2, bollinger_signal |-> bs,
        macd_signal |-> ms, hilo_signal |-> hs, media_movel_cross |-> mx ] :
        p  \in IF AnyEnabled(conditions, {"PRECO_ABAIXO", "PRECO_ACIMA", "mme_cruz_morte"})
               THEN {1, 3} ELSE {1},
        r  \in IF AnyEnabled(conditions, {"rsi_sobrevendido", "rsi_sobrecomprado", "macd_cruz_alta"})
               THEN {20, 50, 80} ELSE {0},
        mv \in IF AnyEnabled(conditions, {"media_movel_cima"}) THEN {-1, 1} ELSE {0},
        mc \in {"Nenhum", "Cruz Dourada", "Cruz da Morte"},
        bs \in IF AnyEnabled(conditions, {"bollinger_abaixo", "bollinger_acima"})
               THEN {"Nenhum", "Acima da Banda", "Abaixo da Banda"} ELSE {"Nenhum"},
        ms \in IF AnyEnabled(conditions, {"macd_cruz_alta", "macd_cruz_baixa"})
               THEN {"Nenhum", "Cruzamento de Alta", "Cruzamento de Baixa"} ELSE {"Nenhum"},
        hs \in IF AnyEnabled(conditions, {"hilo_compra", "hilo_venda"})
               THEN {"Nenhum", "HiLo Buy", "HiLo Sell"} ELSE {"Nenhum"},
        mx \in IF AnyEnabled(conditions, {"media_movel_cima", "media_movel_baixo"})
               THEN CrossDicts ELSE {<<>>} }
    \cup {DegradedSnapshot}

\* analysis_data.get('media_movel_cross', {}).get(period)
MediaMovelCrossAt(snap, period) ==
    IF Has(snap.media_movel_cross, period) THEN snap.media_movel_cross[period] ELSE "None"

\* ------------------------------------------------------------------------
\* _check_and_trigger_alerts
\* ------------------------------------------------------------------------

\* now.isoformat() / datetime.fromisoformat(): a stored timestamp parses back
\* to the instant it was written from; any other string raises ValueError.
IsoFormat(t) == [valid |-> TRUE, t |-> t]

\* alert_config.get('alert_cooldown_minutes', 60)
AlertCooldownMinutes(cfg) == OrDefault(cfg.alert_cooldown_minutes, 60)

\* alert_config.get('triggered_conditions', {}), a legacy list read as {}
TriggeredConditions(cfg) ==
    IF cfg.tc_form = "dict" THEN cfg.triggered_conditions ELSE <<>>

\* lines 215-221: the Filter Mode after this snapshot is taken into account
DeathCrossActiveMutant(cfg, snap) ==
    IF snap.mme_cross = "Cruz da Morte" THEN TRUE ELSE cfg.death_cross_active
DeathCrossActive(cfg, snap) ==
    IF snap.mme_cross = "Cruz da Morte" THEN TRUE
    ELSE IF snap.mme_cross = "Cruz Dourada" THEN FALSE
    ELSE cfg.death_cross_active

\* lines 243-245: conditions[k]['value'] of an enabled condition without value
RaisesKeyError(conditions) ==
    \E k \in {"PRECO_ABAIXO", "PRECO_ACIMA", "rsi_sobrevendido"} :
        ConditionEnabled(conditions, k) /\ ValueMissing(conditions, k)

Opt(c, key) == IF c THEN <<key>> ELSE <<>>

\* lines 258-266: the buy-side conditions behind the Filter Mode
BuySideTriggersMutant(conditions, snap, death_cross_active) ==
       Opt(ConditionEnabled(conditions, "hilo_compra") /\ snap.hilo_signal = "HiLo Buy",
           "HILO_COMPRA")
    \o Opt(ConditionEnabled(conditions, "media_movel_cima")
           /\ MediaMovelCrossAt(snap, OrDefault(conditions["media_movel_cima"].value, 200))
                = "Cruzamento de Alta"
           /\ snap.macd_value > 0,
           "MEDIA_MOVEL_CIMA")
BuySideTriggers(conditions, snap, death_cross_active) ==
    IF death_cross_active THEN <<>>
    ELSE
       Opt(ConditionEnabled(conditions, "hilo_compra") /\ snap.hilo_signal = "HiLo Buy",
           "HILO_COMPRA")
    \o Opt(ConditionEnabled(conditions, "media_movel_cima")
           /\ MediaMovelCrossAt(snap, OrDefault(conditions["media_movel_cima"].value, 200))
                = "Cruzamento de Alta"
           /\ snap.macd_value > 0,
           "MEDIA_MOVEL_CIMA")

\* lines 241-273: active_triggers (trigger keys, in the order they are appended)
ActiveTriggers(conditions, snap, death_cross_active) ==
       Opt(ConditionEnabled(conditions, "PRECO_ABAIXO")
           /\ snap.price <= OrDefault(conditions["PRECO_ABAIXO"].value, 0), "PRECO_ABAIXO")
    \o Opt(ConditionEnabled(conditions, "PRECO_ACIMA")
           /\ snap.price >= OrDefault(conditions["PRECO_ACIMA"].value, 0), "PRECO_ACIMA")
    \o Opt(ConditionEnabled(conditions, "rsi_sobrevendido")
           /\ snap.rsi_value <= OrDefault(conditions["rsi_sobrevendido"].value, 0),
           "RSI_SOBREVENDA")
    \o Opt(ConditionEnabled(conditions, "rsi_sobrecomprado")
           /\ snap.rsi_value >= OrDefault(conditions["rsi_sobrecomprado"].value, 75),
           "RSI_SOBRECOMPRA")
    \o Opt(ConditionEnabled(conditions, "bollinger_abaixo")
           /\ snap.bollinger_signal = "Abaixo da Banda", "PRECO_ABAIXO_BANDA_INFERIOR")
    \o Opt(ConditionEnabled(conditions, "bollinger_acima")
           /\ snap.bollinger_signal = "Acima da Banda", "PRECO_ACIMA_BANDA_SUPERIOR")
    \o Opt(ConditionEnabled(conditions, "macd_cruz_baixa")
           /\ snap.macd_signal = "Cruzamento de Baixa", "CRUZAMENTO_MACD_BAIXA")
    \o Opt(ConditionEnabled(conditions, "macd_cruz_alta")
           /\ snap.macd_signal = "Cruzamento de Alta" /\ snap.rsi_value < 30,
           "CRUZAMENTO_MACD_ALTA")
    \o Opt(ConditionEnabled(conditions, "mme_cruz_morte")
           /\ snap.mme_cross = "Cruz da Morte"
           /\ (snap.degraded \/ snap.price < snap.mme_200), "CRUZ_DA_MORTE")
    \o Opt(ConditionEnabled(conditions, "mme_cruz_dourada")
           /\ snap.mme_cross = "Cruz Dourada", "CRUZ_DOURADA")
    \o BuySideTriggers(conditions, snap, death_cross_active)
    \o Opt(ConditionEnabled(conditions, "hilo_venda") /\ snap.hilo_signal = "HiLo Sell",
           "HILO_VENDA")
    \o Opt(ConditionEnabled(conditions, "media_movel_baixo")
           /\ MediaMovelCrossAt(snap, OrDefault(conditions["media_movel_baixo"].value, 17))
                = "Cruzamento de Baixa",
           "MEDIA_MOVEL_BAIXO")

\* lines 282-289: the trigger is skipped while its last firing is younger than
\* the cooldown; a timestamp that does not parse (ValueError) does not skip it
InCooldownMutant(tc, trigger_key, t, cooldown) ==
    /\ Has(tc, trigger_key)
    /\ tc[trigger_key].valid
    /\ t - tc[trigger_key].t < cooldown - 1
InCooldown(tc, trigger_key, t, cooldown) ==
    /\ Has(tc, trigger_key)
    /\ tc[trigger_key].valid
    /\ t - tc[trigger_key].t < cooldown

\* lines 292-298: alert_info
AlertInfo(trigger_key, t) ==
    [timestamp |-> IsoFormat(t), symbol |-> Symbol, trigger_key |-> trigger_key]

\* lines 280-307: the loop over active_triggers, from index i on
RECURSIVE TriggerLoopMutant(_, _, _, _, _, _)
TriggerLoopMutant(active, i, tc, alerts, t, cooldown) ==
    IF i > Len(active) THEN [alerts |-> alerts, tc |-> tc]
    ELSE IF InCooldown(tc, active[i], t, cooldown)
         THEN TriggerLoopMutant(active, i + 1,
                                (active[i] :> IsoFormat(t)) @@ tc,
                                alerts, t, cooldown)
         ELSE TriggerLoopMutant(active, i + 1,
                                (active[i] :> IsoFormat(t)) @@ tc,
                                Append(alerts, AlertInfo(active[i], t)), t, cooldown)
RECURSIVE TriggerLoop(_, _, _, _, _, _)
TriggerLoop(active, i, tc, alerts, t, cooldown) ==
    IF i > Len(active) THEN [alerts |-> alerts, tc |-> tc]
    ELSE IF InCooldown(tc, active[i], t, cooldown)
         THEN TriggerLoop(active, i + 1, tc, alerts, t, cooldown)
         ELSE TriggerLoop(active, i + 1,
                          (active[i] :> IsoFormat(t)) @@ tc,
                          Append(alerts, AlertInfo(active[i], t)), t, cooldown)

\* _check_and_trigger_alerts(symbol, alert_config, analysis_data, global_config)
\* at clock reading t: the returned pair and the Filter Mode it persisted
CheckAndTriggerAlerts(cfg, snap, t) ==
    LET dca == DeathCrossActive(cfg, snap)
        out == TriggerLoop(ActiveTriggers(cfg.conditions, snap, dca), 1,
                           TriggeredConditions(cfg), <<>>, t,
                           AlertCooldownMinutes(cfg))
    IN  IF RaisesKeyError(cfg.conditions)
        THEN [raised |-> TRUE, death_cross_active |-> dca,
              triggered_alerts |-> <<>>, triggered_conditions |-> TriggeredConditions(cfg)]
        ELSE [raised |-> FALSE, death_cross_active |-> dca,
              triggered_alerts |-> out.alerts, triggered_conditions |-> out.tc]

\* the keys of a list of alerts
TriggerKeys(alerts) == { alerts[i].trigger_key : i \in 1..Len(alerts) }

\* ------------------------------------------------------------------------
\* Indicator library (backend/indicators.py)
\*
\* A moving average is a sequence of values [def, num, den]: the rational
\* num/den (den > 0), or NaN when def is FALSE.  Comparisons with NaN are
\* false, as in pandas.
\* ------------------------------------------------------------------------
MaxBars == 5

Bar(ts, h, l, c) == [timestamp |-> ts, high |-> h, low |-> l, close |-> c]

Column(df, name) == [i \in 1..Len(df) |-> df[i][name]]

RECURSIVE Pow(_, _)
Pow(b, e) == IF e = 0 THEN 1 ELSE b * Pow(b, e - 1)

RECURSIVE Sum(_, _, _)
Sum(x, from, to) == IF from > to THEN 0 ELSE x[to] + Sum(x, from, to - 1)

NaN == [def |-> FALSE, num |-> 0, den |-> 1]
Val(n, d) == [def |-> TRUE, num |-> n, den |-> d]

\* series.shift(k): the value k bars earlier, NaN before the start
Shift(series, k) ==
    [t \in 1..Len(series) |-> IF t - k >= 1 THEN series[t - k] ELSE NaN]

\* the price series as values, and its shift(1)
AsValues(x) == [t \in 1..Len(x) |-> Val(x[t], 1)]

\* a < b, a <= b on values; False when either side is NaN
ValLt(a, b) == a.def /\ b.def /\ a.num * b.den < b.num * a.den
ValLe(a, b) == a.def /\ b.def /\ a.num * b.den <= b.num * a.den

\* series.ewm(span=period, adjust=False).mean() at bar t, as the numerator
\* over the denominator (period + 1)^(t - 1):
\*   y[1] = x[1],  y[t] = a*x[t] + (1 - a)*y[t-1],  a = 2/(period + 1)
RECURSIVE EwmNum(_, _, _)
EwmNum(x, period, t) ==
    IF t = 1 THEN x[1]
    ELSE 2 * x[t] * Pow(period + 1, t - 2) + (period - 1) * EwmNum(x, period, t - 1)

\* calculate_ema(series, period)
calculate_ema(x, period) ==
    [t \in 1..Len(x) |-> Val(EwmNum(x, period, t), Pow(period + 1, t - 1))]

\* a variant with rolling(window=period, min_periods=1)
calculate_smaMutant(x, period) ==
    [t \in 1..Len(x) |->
        IF t < period THEN Val(Sum(x, 1, t), t) ELSE Val(Sum(x, t - period + 1, t), period)]

\* calculate_sma(series, period): rolling(window=period).mean()
calculate_sma(x, period) ==
    [t \in 1..Len(x) |->
        IF t < period THEN NaN ELSE Val(Sum(x, t - period + 1, t), period)]

\* ---- calculate_media_movel_cross ---------------------------------------
\* lines 143-147: the crossover masks of close against EMA(close, period)
MediaMovelHighCross(df, period, t) ==
    LET close == AsValues(Column(df, "close"))
        ema == calculate_ema(Column(df, "close"), period)
    IN  ValLe(Shift(close, 1)[t], Shift(ema, 1)[t]) /\ ValLt(ema[t], close[t])

MediaMovelLowCross(df, period, t) ==
    LET close == AsValues(Column(df, "close"))
        ema == calculate_ema(Column(df, "close"), period)
    IN  ValLe(Shift(ema, 1)[t], Shift(close, 1)[t]) /\ ValLt(close[t], ema[t])

\* calculate_media_movel_cross(df, period, return_series=True)
calculate_media_movel_cross_series(df, period) ==
    IF Len(df) < period + 1 THEN [t \in 1..Len(df) |-> "Nenhum"]
    ELSE [t \in 1..Len(df) |->
            IF MediaMovelLowCross(df, period, t) THEN "Cruzamento de Baixa"
            ELSE IF MediaMovelHighCross(df, period, t) THEN "Cruzamento de Alta"
            ELSE "Nenhum"]

\* calculate_media_movel_cross(df, period), the live mode
calculate_media_movel_cross_latestMutant(df, period) ==
    IF Len(df) < period + 1 THEN "Nenhum"
    ELSE IF MediaMovelHighCross(df, period, Len(df) - 1) THEN "Cruzamento de Alta"
    ELSE IF MediaMovelLowCross(df, period, Len(df) - 1) THEN "Cruzamento de Baixa"
    ELSE "Nenhum"
calculate_media_movel_cross_latest(df, period) ==
    IF Len(df) < period + 1 THEN "Nenhum"
    ELSE IF Len(df) < 2 THEN "Nenhum"
    ELSE IF MediaMovelHighCross(df, period, Len(df)) THEN "Cruzamento de Alta"
    ELSE IF MediaMovelLowCross(df, period, Len(df)) THEN "Cruzamento de Baixa"
    ELSE "Nenhum"

\* ---- calculate_hilo_signals --------------------------------------------
\* lines 108-113: the moving average of a column, shifted by offset
HiLoMa(df, name, length, ma_type, offset) ==
    IF ma_type = "EMA" THEN Shift(calculate_ema(Column(df, name), length), offset)
    ELSE Shift(calculate_sma(Column(df, name), length), offset)

\* lines 116-117: buy_signals_series, sell_signals_series
HiLoBuy(df, length, ma_type, offset, t) ==
    LET close == AsValues(Column(df, "close"))
        hima == HiLoMa(df, "high", length, ma_type, offset)
    IN  ValLe(Shift(close, 1)[t], Shift(hima, 1)[t]) /\ ValLt(hima[t], close[t])

HiLoSell(df, length, ma_type, offset, t) ==
    LET close == AsValues(Column(df, "close"))
        loma == HiLoMa(df, "low", length, ma_type, offset)
    IN  ValLe(Shift(loma, 1)[t], Shift(close, 1)[t]) /\ ValLt(close[t], loma[t])

\* calculate_hilo_signals(df, length, ma_type, offset, return_series=True)[2]
calculate_hilo_signals_series(df, length, ma_type, offset) ==
    IF Len(df) = 0 \/ Len(df) < length + offset + 1 THEN [t \in 1..Len(df) |-> "Nenhum"]
    ELSE [t \in 1..Len(df) |->
            IF HiLoSell(df, length, ma_type, offset, t) THEN "HiLo Sell"
            ELSE IF HiLoBuy(df, length, ma_type, offset, t) THEN "HiLo Buy"
            ELSE "Nenhum"]

\* calculate_hilo_signals(df, length, ma_type, offset)[2], the live mode
\* (None for a window that is too short)
calculate_hilo_signals_latest(df, length, ma_type, offset) ==
    IF Len(df) = 0 \/ Len(df) < length + offset + 1 THEN "None"
    ELSE IF HiLoBuy(df, length, ma_type, offset, Len(df)) THEN "HiLo Buy"
    ELSE IF HiLoSell(df, length, ma_type, offset, Len(df)) THEN "HiLo Sell"
    ELSE "Nenhum"

\* ---- calculate_macd -----------------------------------------------------
\* lines 60-62: macd = EMA(close, fast) - EMA(close, slow) at bar t, as the
\* numerator over ((fast + 1) * (slow + 1))^(t - 1)
MacdNum(x, fast, slow, t) ==
    EwmNum(x, fast, t) * Pow(slow + 1, t - 1) - EwmNum(x, slow, t) * Pow(fast + 1, t - 1)

\* line 63: signal_line = macd.ewm(span=signal, adjust=False).mean() at bar t,
\* as the numerator over ((fast + 1) * (slow + 1) * (signal + 1))^(t - 1)
RECURSIVE SignalLineNum(_, _, _, _, _)
SignalLineNum(x, fast, slow, signal, t) ==
    IF t = 1 THEN MacdNum(x, fast, slow, 1)
    ELSE 2 * MacdNum(x, fast, slow, t) * Pow(signal + 1, t - 2)
         + (signal - 1) * (fast + 1) * (slow + 1) * SignalLineNum(x, fast, slow, signal, t - 1)

\* line 64: histogram = macd - signal_line at bar t, over the same denominator
HistogramNum(x, fast, slow, signal, t) ==
    MacdNum(x, fast, slow, t) * Pow(signal + 1, t - 1) - SignalLineNum(x, fast, slow, signal, t)

\* macd.shift(1) < signal_line.shift(1) and macd > signal_line at bar t
\* (lines 70 and 79): False at the first bar, whose shift is NaN
MacdHighCross(x, fast, slow, signal, t) ==
    /\ t >= 2
    /\ HistogramNum(x, fast, slow, signal, t - 1) < 0
    /\ HistogramNum(x, fast, slow, signal, t) > 0

\* lines 72 and 81
MacdLowCross(x, fast, slow, signal, t) ==
    /\ t >= 2
    /\ HistogramNum(x, fast, slow, signal, t - 1) > 0
    /\ HistogramNum(x, fast, slow, signal, t) < 0

\* a variant of the full-series mode with the two labels swapped
calculate_macd_seriesMutant(df, fast, slow, signal) ==
    IF Len(df) < slow + signal THEN [t \in 1..Len(df) |-> "Nenhum"]
    ELSE LET x == Column(df, "close")
         IN  [t \in 1..Len(df) |->
                IF MacdLowCross(x, fast, slow, signal, t) THEN "Cruzamento de Alta"
                ELSE IF MacdHighCross(x, fast, slow, signal, t) THEN "Cruzamento de Baixa"
                ELSE "Nenhum"]

\* calculate_macd(df, fast, slow, signal, return_series=True)
calculate_macd_series(df, fast, slow, signal) ==
    IF Len(df) < slow + signal THEN [t \in 1..Len(df) |-> "Nenhum"]
    ELSE LET x == Column(df, "close")
         IN  [t \in 1..Len(df) |->
                IF MacdLowCross(x, fast, slow, signal, t) THEN "Cruzamento de Baixa"
                ELSE IF MacdHighCross(x, fast, slow, signal, t) THEN "Cruzamento de Alta"
                ELSE "Nenhum"]

\* calculate_macd(df, fast, slow, signal)[0], the live mode
calculate_macd_latest(df, fast, slow, signal) ==
    IF Len(df) < slow + signal THEN "N/A"
    ELSE LET x == Column(df, "close")
         IN  IF Len(df) >= 2 /\ MacdHighCross(x, fast, slow, signal, Len(df))
             THEN "Cruzamento de Alta"
             ELSE IF Len(df) >= 2 /\ MacdLowCross(x, fast, slow, signal, Len(df))
             THEN "Cruzamento de Baixa"
             ELSE "Nenhum"

\* ------------------------------------------------------------------------
\* The indicator specification: the three crossover indicators are called
\* in full-series mode on a frame and in latest-only mode on each prefix.
\* ------------------------------------------------------------------------

\* df.iloc[:t]
Prefix(df, t) == SubSeq(df, 1, t)

\* well-formed bars: low <= close <= high, s around the close
BarChoices(s) ==
    { Bar(0, c + s, c - s, c) : c \in {2, 3, 4} }

RECURSIVE Frames(_, _)
Frames(n, s) ==
    IF n = 0 THEN {<<>>}
    ELSE LET shorter == Frames(n - 1, s)
         IN  shorter \cup { Append(f, b) : f \in {g \in shorter : Len(g) = n - 1},
                                           b \in BarChoices(s) }

\* hourly timestamps, in minutes
Stamped(df) == [i \in 1..Len(df) |-> [df[i] EXCEPT !.timestamp = 60 * (i - 1)]]

IndParamChoices ==
    { [fast |-> 1, slow |-> 2, signal |-> 2, length |-> 2, ma_type |-> "EMA",
       offset |-> 0, period |-> 2],
      [fast |-> 1, slow |-> 2, signal |-> 2, length |-> 2, ma_type |-> "SMA",
       offset |-> 1, period |-> 1] }

NoSignals == [macd |-> <<>>, hilo |-> <<>>, media_movel |-> <<>>]

IndIdle ==
    /\ ind_params = <<>>
    /\ ind_series = NoSignals
    /\ ind_latest = NoSignals
    /\ ind_values = <<>>

LiveIdle ==
    /\ alert_config = <<>>
    /\ now = 0
    /\ analysis_data = DegradedSnapshot
    /\ triggered_alerts = <<>>
    /\ raised = FALSE
    /\ n_evals = 0
    /\ last_emitted = <<>>

ScanIdle ==
    /\ request = <<>>
    /\ pc = "idle"
    /\ hist_fetch = "none"
    /\ alerts_df = <<>>
    /\ fwd_fetch = [outcome |-> "none", df |-> <<>>]
    /\ fetches = <<>>
    /\ computed = {}
    /\ result = <<>>

\* no backtest has been started
BacktestIdle ==
    /\ bt_df = <<>>
    /\ bt_pc = "idle"
    /\ bt_i = 0
    /\ active_signals = {}
    /\ bt_output = <<>>

\* BinanceRateLimiter.__init__, lines 20-28
LimiterIdle ==
    /\ clock = 0
    /\ requests_1min = <<>>
    /\ requests_5min = <<>>
    /\ manual_update_mode = FALSE
    /\ admitted = <<>>

\* no call of DataCache.get has been made
NoCall == [pc |-> "idle", key |-> "", ttl |-> 0, cached |-> <<>>, out |-> <<>>]

\* DataCache.__init__, lines 131-141
CacheIdle ==
    /\ cache = <<>>
    /\ cache_lock = "free"
    /\ get_call = NoCall

ToolsIdle == BacktestIdle /\ LimiterIdle /\ CacheIdle

InitInd ==
    /\ LiveIdle
    /\ ScanIdle
    /\ ToolsIdle
    /\ historical_df \in { Stamped(f) : f \in Frames(MaxBars, 0) \cup Frames(MaxBars, 1) }
    /\ ind_params \in IndParamChoices
    /\ ind_series = NoSignals
    /\ ind_latest = NoSignals
    /\ ind_values = <<>>

\* the full-series calls on the whole frame
ComputeSeries ==
    /\ ind_series = NoSignals
    /\ Len(historical_df) > 0
    /\ ind_series' =
          [ macd |-> calculate_macd_series(historical_df, ind_params.fast,
                                           ind_params.slow, ind_params.signal),
            hilo |-> calculate_hilo_signals_series(historical_df, ind_params.length,
                                                   ind_params.ma_type, ind_params.offset),
            media_movel |-> calculate_media_movel_cross_series(historical_df,
                                                               ind_params.period) ]
    /\ UNCHANGED <<liveVars, scanVars, toolVars, historical_df, ind_params, ind_latest, ind_values>>

\* the latest-only calls on every prefix of the frame
ComputeLatest ==
    /\ ind_latest = NoSignals
    /\ Len(historical_df) > 0
    /\ ind_latest' =
          [ macd |-> [t \in 1..Len(historical_df) |->
                        calculate_macd_latest(Prefix(historical_df, t), ind_params.fast,
                                              ind_params.slow, ind_params.signal)],
            hilo |-> [t \in 1..Len(historical_df) |->
                        calculate_hilo_signals_latest(Prefix(historical_df, t),
                            ind_params.length, ind_params.ma_type, ind_params.offset)],
            media_movel |-> [t \in 1..Len(historical_df) |->
                        calculate_media_movel_cross_latest(Prefix(historical_df, t),
                                                           ind_params.period)] ]
    /\ UNCHANGED <<liveVars, scanVars, toolVars, historical_df, ind_params, ind_series, ind_values>>

NextInd == ComputeSeries \/ ComputeLatest

SpecInd == InitInd /\ [][NextInd]_vars

\* ------------------------------------------------------------------------
\* The live specification: one symbol's alert_config evaluated repeatedly
\* by run_single_symbol_update while the clock advances.
\* ------------------------------------------------------------------------
InitLive ==
    /\ historical_df = <<>>
    /\ IndIdle
    /\ ToolsIdle
    /\ ScanIdle
    /\ alert_config \in AlertConfigs
    /\ now = 0
    /\ analysis_data = DegradedSnapshot
    /\ triggered_alerts = <<>>
    /\ raised = FALSE
    /\ n_evals = 0
    /\ last_emitted = <<>>

\* the clock advances by one minute
Tick ==
    /\ now < MaxTime
    /\ now' = now + 1
    /\ UNCHANGED <<alert_config, analysis_data, triggered_alerts, raised,
                   n_evals, last_emitted, historical_df, indVars, scanVars, toolVars>>

\* run_single_symbol_update, lines 479-485: analyse, evaluate, write back.
\* A triggered_conditions dict is updated in place by the evaluation; any
\* other form is replaced by the returned dict when an alert was raised.
RunSingleSymbolUpdate ==
    /\ n_evals < MaxEvals
    /\ \E snap \in Snapshots(alert_config.conditions) :
        LET r == CheckAndTriggerAlerts(alert_config, snap, now)
            stored == r.triggered_alerts # <<>>
        IN  /\ alert_config' =
                  [ alert_config EXCEPT
                      !.death_cross_active = r.death_cross_active,
                      !.tc_form = IF stored THEN "dict" ELSE @,
                      !.triggered_conditions =
                          IF stored \/ alert_config.tc_form = "dict"
                          THEN r.triggered_conditions ELSE @ ]
            /\ analysis_data' = snap
            /\ triggered_alerts' = r.triggered_alerts
            /\ raised' = r.raised
            /\ n_evals' = n_evals + 1
            /\ last_emitted' =
                  [ k \in TriggerKeys(r.triggered_alerts) |-> now ] @@ last_emitted
            /\ UNCHANGED <<now, historical_df, indVars, scanVars, toolVars>>

NextLive == Tick \/ RunSingleSymbolUpdate

SpecLive == InitLive /\ [][NextLive]_vars

\* ------------------------------------------------------------------------
\* Historical scanner (backend/historical_analyzer.py) and the fetcher it
\* awaits (backend/data_fetcher.py).
\*
\* Times are minutes since the start date of the request; a day is 1440
\* minutes.  fetch_historical_data is a plain function that the scanner
\* awaits; the model takes each await to deliver the value the function
\* returned.
\* ------------------------------------------------------------------------
MaxScanBars == 5
SampleRecords == 3

\* parameters.get(name, dflt)
ParamGet(parameters, name, dflt) ==
    IF Has(parameters, name) THEN parameters[name] ELSE dflt

\* close.diff() split into its positive part and the size of its negative part
Change(x, side, i) ==
    IF side = "positive"
    THEN (IF x[i] > x[i - 1] THEN x[i] - x[i - 1] ELSE 0)
    ELSE (IF x[i] < x[i - 1] THEN x[i - 1] - x[i] ELSE 0)

\* ewm(alpha=1/length, min_periods=length).mean() of one part at bar t, as
\* the weighted sum with weights (length-1)^(t-i) * length^(i-2), i = 2..t;
\* the common normaliser cancels in the ratio RSI is made of
RECURSIVE RmaNum(_, _, _, _)
RmaNum(x, side, length, t) ==
    IF t < 2 THEN 0
    ELSE Change(x, side, t) * Pow(length, t - 2)
         + (length - 1) * RmaNum(x, side, length, t - 1)

\* the RSI series: 100 * positive_avg / (positive_avg + |negative_avg|)
calculate_rsi(df, period) ==
    LET x == Column(df, "close")
    IN  [t \in 1..Len(df) |->
            IF Len(df) < period + 1 \/ t < period + 1 THEN NaN
            ELSE LET pos == RmaNum(x, "positive", period, t)
                     neg == RmaNum(x, "negative", period, t)
                 IN  IF pos + neg = 0 THEN NaN ELSE Val(100 * pos, pos + neg)]

\* n/d rounded to the nearest integer, ties to the even one (d > 0)
RoundHalfEven(n, d) ==
    LET q == n \div d
        r == n - q * d
    IN  IF 2 * r < d THEN q
        ELSE IF 2 * r > d THEN q + 1
        ELSE IF q % 2 = 0 THEN q ELSE q + 1

\* a value to two decimals, in hundredths: '{:.2f}'.format(v), round(v, 2)
Round2(v) == RoundHalfEven(100 * v.num, v.den)

\* the rolling window of calculate_bollinger_bands at bar t (min_periods=1):
\* its size n, the sum s and the sum of squares q of its closes.  The bands
\* are sma -/+ std_dev * std with the sample deviation, NaN on one value.
calculate_bollinger_bands(df, period) ==
    LET x == Column(df, "close")
        sq == [i \in 1..Len(x) |-> x[i] * x[i]]
    IN  [t \in 1..Len(df) |->
            IF Len(df) < period THEN [def |-> FALSE, n |-> 0, s |-> 0, q |-> 0]
            ELSE LET from == IF t > period THEN t - period + 1 ELSE 1
                 IN  [def |-> t - from + 1 >= 2, n |-> t - from + 1,
                      s |-> Sum(x, from, t), q |-> Sum(sq, from, t)]]

\* close < lower_band, with sma = s/n and std^2 = (n*q - s^2) / (n*(n-1))
BelowLowerBand(c, w, std_dev) ==
    /\ w.def
    /\ w.s - w.n * c > 0
    /\ (w.s - w.n * c) * (w.s - w.n * c) * (w.n - 1)
         > std_dev * std_dev * w.n * (w.n * w.q - w.s * w.s)

\* close > upper_band
AboveUpperBand(c, w, std_dev) ==
    /\ w.def
    /\ w.n * c - w.s > 0
    /\ (w.n * c - w.s) * (w.n * c - w.s) * (w.n - 1)
         > std_dev * std_dev * w.n * (w.n * w.q - w.s * w.s)

\* a condition key: its base condition and, for the moving-average crosses,
\* the period appended to it
ConditionKey(base, period) == [base |-> base, period |-> period]

\* a description: the template and the RSI text formatted into it
Description(template, rsi) == [template |-> template, rsi |-> rsi]

Plain(df, template) == [t \in 1..Len(df) |-> Description(template, {})]

WithRsi(df, template, rsi_series) ==
    [t \in 1..Len(df) |->
        Description(template,
                    IF rsi_series[t].def THEN {Round2(rsi_series[t])} ELSE {})]

\* historical_df.loc[mask] with the condition and description columns
create_alert_df(df, mask, condition_key, descriptions) ==
    LET idx == SelectSeq([i \in 1..Len(df) |-> i], LAMBDA i : mask[i])
    IN  [j \in 1..Len(idx) |->
            [timestamp |-> df[idx[j]].timestamp, close |-> df[idx[j]].close,
             condition |-> condition_key, description |-> descriptions[idx[j]]]]

\* a block runs only under conditions.get(key, {}).get('enabled')
BlockMutant(conditions, key, rows) ==
    IF Has(conditions, key) THEN rows ELSE <<>>

Block(conditions, key, rows) ==
    IF ConditionEnabled(conditions, key) THEN rows ELSE <<>>

\* the four fixed periods of the moving-average cross conditions
MmeCrossBlocks(df, conditions, base, signal, template) ==
    LET rows(period) ==
            LET series == calculate_media_movel_cross_series(df, period)
            IN  create_alert_df(df, [t \in 1..Len(df) |-> series[t] = signal],
                                ConditionKey(base, {period}),
                                Plain(df, <<template, period>>))
    IN  Block(conditions, base, rows(17) \o rows(34) \o rows(72) \o rows(144))

\* pd.concat(alert_dfs): the rows of every enabled condition, block by block
AlertRows(df, conditions, parameters) ==
    LET rsi_period == ParamGet(parameters, "rsi_period", 14)
        rsi_overbought == ParamGet(parameters, "rsi_overbought", 75)
        rsi_oversold == ParamGet(parameters, "rsi_oversold", 30)
        macd_fast == ParamGet(parameters, "macd_fast", 12)
        macd_slow == ParamGet(parameters, "macd_slow", 26)
        macd_signal == ParamGet(parameters, "macd_signal", 9)
        bb_period == ParamGet(parameters, "bb_period", 20)
        bb_std == ParamGet(parameters, "bb_std", 2)
        n == Len(df)
        rsi_series == calculate_rsi(df, rsi_period)
        bands == calculate_bollinger_bands(df, bb_period)
        macd_cross_series == calculate_macd_series(df, macd_fast, macd_slow, macd_signal)
        has_emas == n >= 50 /\ n >= 200
        ema50 == calculate_ema(Column(df, "close"), 50)
        ema200 == calculate_ema(Column(df, "close"), 200)
        hilo_signal_series == calculate_hilo_signals_series(df, 34, "EMA", 0)
        one(key, mask, descriptions) ==
            Block(conditions, key,
                  create_alert_df(df, mask, ConditionKey(key, {}), descriptions))
    IN  one("rsi_sobrevendido",
            [t \in 1..n |-> ValLe(rsi_series[t], Val(rsi_oversold, 1))],
            WithRsi(df, "RSI em Sobrevenda ({rsi})", rsi_series))
     \o one("rsi_sobrecomprado",
            [t \in 1..n |-> ValLe(Val(rsi_overbought, 1), rsi_series[t])],
            WithRsi(df, "RSI em Sobrecompra ({rsi})", rsi_series))
     \o one("bollinger_abaixo",
            [t \in 1..n |-> BelowLowerBand(df[t].close, bands[t], bb_std)],
            Plain(df, "Preço Abaixo da Banda de Bollinger"))
     \o one("bollinger_acima",
            [t \in 1..n |-> AboveUpperBand(df[t].close, bands[t], bb_std)],
            Plain(df, "Preço Acima da Banda de Bollinger"))
     \o one("macd_cruz_alta",
            [t \in 1..n |-> /\ macd_cross_series[t] = "Cruzamento de Alta"
                            /\ ValLt(rsi_series[t], Val(rsi_oversold, 1))],
            Plain(df, "MACD: Cruzamento de Alta"))
     \o one("macd_cruz_baixa",
            [t \in 1..n |-> macd_cross_series[t] = "Cruzamento de Baixa"],
            Plain(df, "MACD: Cruzamento de Baixa"))
     \o (IF has_emas
         THEN one("mme_cruz_dourada",
                  [t \in 1..n |-> /\ ValLt(Shift(ema50, 1)[t], Shift(ema200, 1)[t])
                                  /\ ValLt(ema200[t], ema50[t])],
                  Plain(df, "MME: Cruz Dourada (50/200)"))
           \o one("mme_cruz_morte",
                  [t \in 1..n |-> /\ ValLt(Shift(ema200, 1)[t], Shift(ema50, 1)[t])
                                  /\ ValLt(ema50[t], ema200[t])],
                  Plain(df, "MME: Cruz da Morte (50/200)"))
         ELSE <<>>)
     \o one("hilo_compra",
            [t \in 1..n |-> hilo_signal_series[t] = "HiLo Buy"],
            Plain(df, "HiLo: Sinal de Compra"))
     \o one("hilo_venda",
            [t \in 1..n |-> hilo_signal_series[t] = "HiLo Sell"],
            Plain(df, "HiLo: Sinal de Venda"))
     \o MmeCrossBlocks(df, conditions, "media_movel_cima", "Cruzamento de Alta",
                       "Preço cruzou MME {period} para cima")
     \o MmeCrossBlocks(df, conditions, "media_movel_baixo", "Cruzamento de Baixa",
                       "Preço cruzou MME {period} para baixo")

\* The indicator functions a scan of a non-empty frame calls: the seven of
\* lines 50-56 whatever the conditions, and calculate_media_movel_cross
\* inside the blocks of its two conditions (lines 127-141).
IndicatorCalls(conditions) ==
    {"calculate_rsi", "calculate_bollinger_bands", "calculate_macd", "calculate_emas",
     "calculate_hilo_signals", "calculate_hma", "calculate_vwap"}
    \cup (IF ConditionEnabled(conditions, "media_movel_cima")
             \/ ConditionEnabled(conditions, "media_movel_baixo")
          THEN {"calculate_media_movel_cross"} ELSE {})

\* sort_index(): by timestamp, rows of one timestamp in concatenation order
SortIndexMutant(rows) == rows

RECURSIVE SortIndex(_)
SortIndex(rows) ==
    IF rows = <<>> THEN <<>>
    ELSE LET head == SortIndex(SubSeq(rows, 1, Len(rows) - 1))
             r == rows[Len(rows)]
         IN  SelectSeq(head, LAMBDA a : a.timestamp <= r.timestamp)
             \o <<r>>
             \o SelectSeq(head, LAMBDA a : a.timestamp > r.timestamp)

\* drop_duplicates(subset=['timestamp', 'description']): the first row of
\* each pair stays
DropDuplicatesMutant(rows) == rows

RECURSIVE DropDuplicates(_)
DropDuplicates(rows) ==
    IF rows = <<>> THEN <<>>
    ELSE LET head == DropDuplicates(SubSeq(rows, 1, Len(rows) - 1))
             r == rows[Len(rows)]
         IN  IF \E i \in 1..Len(head) : /\ head[i].timestamp = r.timestamp
                                        /\ head[i].description = r.description
             THEN head
             ELSE Append(head, r)

\* pd.to_datetime(timestamp) of an isoformat() text or of a Timestamp
ToDatetime(iso) == iso.t

\* the output columns of one alert
ToRecord(row) ==
    [timestamp |-> IsoFormat(row.timestamp), symbol |-> Symbol,
     condition |-> row.condition, description |-> row.description,
     snapshot |-> [price |-> row.close]]

\* a variant that gives up on a frame too short for the EMA 200
ScanRecordsMutant(df, conditions, parameters) ==
    IF Len(df) < 200 THEN <<>>
    ELSE LET final_alerts_df == DropDuplicates(SortIndex(AlertRows(df, conditions, parameters)))
         IN  [i \in 1..Len(final_alerts_df) |-> ToRecord(final_alerts_df[i])]

\* the alert records of a non-empty frame, before the hit-rate pass
ScanRecords(df, conditions, parameters) ==
    LET final_alerts_df == DropDuplicates(SortIndex(AlertRows(df, conditions, parameters)))
    IN  [i \in 1..Len(final_alerts_df) |-> ToRecord(final_alerts_df[i])]

\* the frame the fetcher builds when requests.get raises RequestException:
\* hourly bars ending at the end date, with random prices
SampleDf(end_ms, closes) ==
    [i \in 1..Len(closes) |->
        Bar(end_ms - 60 * (Len(closes) - i), closes[i], closes[i], closes[i])]

\* fetch_historical_data for one outcome of the paginated download:
\*   "ok"                 every page arrived; pages holds the rows
\*   "exception"          a page failed with an unexpected error; pages
\*                        holds what had arrived before
\*   "request_exception"  a page failed with a network/API error
fetch_historical_data(start_ms, end_ms, response) ==
    IF ~(start_ms < end_ms) THEN <<>>
    ELSE IF response.outcome = "request_exception"
    THEN SampleDf(end_ms, response.sample)
    ELSE IF response.pages = <<>> THEN <<>>
    ELSE SelectSeq(response.pages, LAMBDA b : b.timestamp < end_ms)

SIGNAL_TYPE_MAPPING ==
    [k \in {"rsi_sobrevendido", "bollinger_abaixo", "macd_cruz_alta",
            "mme_cruz_dourada", "hilo_compra", "media_movel_cima",
            "hma_cruz_alta", "vwap_cruz_alta"} |-> "buy"]
    @@
    [k \in {"rsi_sobrecomprado", "bollinger_acima", "macd_cruz_baixa",
            "mme_cruz_morte", "hilo_venda", "media_movel_baixo",
            "hma_cruz_baixa", "vwap_cruz_baixa"} |-> "sell"]

\* the keys of the table in the order of the dict
MappingItems ==
    <<"rsi_sobrevendido", "bollinger_abaixo", "macd_cruz_alta", "mme_cruz_dourada",
      "hilo_compra", "media_movel_cima", "hma_cruz_alta", "vwap_cruz_alta",
      "rsi_sobrecomprado", "bollinger_acima", "macd_cruz_baixa", "mme_cruz_morte",
      "hilo_venda", "media_movel_baixo", "hma_cruz_baixa", "vwap_cruz_baixa">>

\* the text of a key, as its words between the underscores
KeyWords ==
    [rsi_sobrevendido |-> <<"rsi", "sobrevendido">>,
     rsi_sobrecomprado |-> <<"rsi", "sobrecomprado">>,
     bollinger_abaixo |-> <<"bollinger", "abaixo">>,
     bollinger_acima |-> <<"bollinger", "acima">>,
     macd_cruz_alta |-> <<"macd", "cruz", "alta">>,
     macd_cruz_baixa |-> <<"macd", "cruz", "baixa">>,
     mme_cruz_dourada |-> <<"mme", "cruz", "dourada">>,
     mme_cruz_morte |-> <<"mme", "cruz", "morte">>,
     hilo_compra |-> <<"hilo", "compra">>,
     hilo_venda |-> <<"hilo", "venda">>,
     media_movel_cima |-> <<"media", "movel", "cima">>,
     media_movel_baixo |-> <<"media", "movel", "baixo">>,
     hma_cruz_alta |-> <<"hma", "cruz", "alta">>,
     hma_cruz_baixa |-> <<"hma", "cruz", "baixa">>,
     vwap_cruz_alta |-> <<"vwap", "cruz", "alta">>,
     vwap_cruz_baixa |-> <<"vwap", "cruz", "baixa">>,
     preco_baixo |-> <<"preco", "baixo">>]

\* the condition string of an alert: the base key, then f'_{period}' for the
\* moving-average crosses
ConditionText(condition) ==
    KeyWords[condition.base]
    \o (IF condition.period = {} THEN <<>>
        ELSE <<ToString(CHOOSE period \in condition.period : TRUE)>>)

\* text.startswith(prefix)
StartsWith(text, prefix) ==
    /\ Len(text) >= Len(prefix)
    /\ SubSeq(text, 1, Len(prefix)) = prefix

\* a variant that looks the condition up by equality
SignalTypeMutant(condition) ==
    LET hits == SelectSeq(MappingItems,
                          LAMBDA key : ConditionText(condition) = KeyWords[key])
    IN  IF hits = <<>> THEN {} ELSE {SIGNAL_TYPE_MAPPING[hits[1]]}

\* line 240: the type of the first mapping key the condition starts with,
\* or None
SignalType(condition) ==
    LET hits == SelectSeq(MappingItems,
                          LAMBDA key : StartsWith(ConditionText(condition), KeyWords[key]))
    IN  IF hits = <<>> THEN {} ELSE {SIGNAL_TYPE_MAPPING[hits[1]]}

DefaultTimeframes ==
    ("15m" :> 15) @@ ("30m" :> 30) @@ ("1h" :> 60) @@ ("4h" :> 240) @@ ("24h" :> 1440)

\* timeframes_config, with the scanner's default for None
Timeframes(req) == OrDefault(req.timeframes_config, DefaultTimeframes)

\* a pandas Timestamp: the instant, no longer a text
Timestamp(t) == [t |-> t]

\* a variant that hands the alerts on in reverse order
InitHitColumnsMutant(alerts, timeframes) ==
    [i \in 1..Len(alerts) |->
        [alerts[Len(alerts) + 1 - i]
            EXCEPT !.timestamp = Timestamp(ToDatetime(alerts[Len(alerts) + 1 - i].timestamp))]
        @@ [hit |-> [tf \in DOMAIN timeframes |-> {}],
            pct_change |-> [tf \in DOMAIN timeframes |-> {}],
            hit_rate_calculated |-> {}]]

\* lines 208-213: the hit_<tf> and pct_change_<tf> columns, initialised to
\* None, and the timestamp column parsed with pd.to_datetime
InitHitColumns(alerts, timeframes) ==
    [i \in 1..Len(alerts) |->
        [alerts[i] EXCEPT !.timestamp = Timestamp(ToDatetime(alerts[i].timestamp))]
        @@ [hit |-> [tf \in DOMAIN timeframes |-> {}],
            pct_change |-> [tf \in DOMAIN timeframes |-> {}],
            hit_rate_calculated |-> {}]]

AlertTimes(alerts) == { ToDatetime(alerts[i].timestamp) : i \in 1..Len(alerts) }

DayStart(t) == (t \div 1440) * 1440

\* the single forward request: from the day of the first alert to the day
\* two days after the last one
FutureRange(alerts) ==
    LET min_alert_time == CHOOSE t \in AlertTimes(alerts) : \A u \in AlertTimes(alerts) : t <= u
        max_alert_time == CHOOSE t \in AlertTimes(alerts) : \A u \in AlertTimes(alerts) : t >= u
    IN  [start |-> DayStart(min_alert_time), end |-> DayStart(max_alert_time + 2 * 1440)]

\* one call of fetch_historical_data(symbol, start_date, end_date, interval)
FetchCall(kind, interval, start_ms, end_ms) ==
    [kind |-> kind, interval |-> interval, start |-> start_ms, end |-> end_ms]

\* a variant with one forward request for every alert
ForwardFetchesMutant(alerts) ==
    [i \in 1..Len(alerts) |->
        FetchCall("forward", "1m", FutureRange(alerts).start, FutureRange(alerts).end)]

\* lines 215-223: the forward requests of calculate_hit_rate, a single batch
ForwardFetches(alerts) ==
    <<FetchCall("forward", "1m", FutureRange(alerts).start, FutureRange(alerts).end)>>

\* future_df[future_df.index >= future_time]
FuturePriceSeriesMutant(future_df, future_time) == future_df

FuturePriceSeries(future_df, future_time) ==
    SelectSeq(future_df, LAMBDA b : b.timestamp >= future_time)

\* ((future_price - start_price) / start_price) * 100 if start_price != 0 else 0
PctChange(future_price, start_price) ==
    IF start_price # 0
    THEN Val(100 * (future_price - start_price), start_price)
    ELSE Val(0, 1)

Hit(signal_type, pct_change) ==
    \/ signal_type = "buy" /\ pct_change.num > 0
    \/ signal_type = "sell" /\ pct_change.num < 0

\* the value stored in pct_change_<tf>, in hundredths of a percent
StoredPctMutant(pct_change) == (100 * pct_change.num) \div pct_change.den

StoredPct(pct_change) == Round2(pct_change)

\* one pass of the loop over the alerts
EvaluateAlert(alert, future_df, timeframes) ==
    LET signal_type == SignalType(alert.condition)
        start_price == alert.snapshot.price
        series(tf) == FuturePriceSeries(future_df,
                                        ToDatetime(alert.timestamp) + timeframes[tf])
        pct(tf) == PctChange(series(tf)[1].close, start_price)
    IN  IF signal_type = {} THEN alert
        ELSE [alert EXCEPT
                !.hit = [tf \in DOMAIN timeframes |->
                            IF series(tf) = <<>> THEN {}
                            ELSE {Hit(OrDefault(signal_type, "none"), pct(tf))}],
                !.pct_change = [tf \in DOMAIN timeframes |->
                            IF series(tf) = <<>> THEN {}
                            ELSE {StoredPct(pct(tf))}]]

\* a variant that runs the loop whatever the forward frame holds
calculate_hit_rateMutant(alerts, future_df, timeframes) ==
    [i \in 1..Len(alerts) |->
        [EvaluateAlert(alerts[i], future_df, timeframes)
            EXCEPT !.hit_rate_calculated = {TRUE}]]

\* calculate_hit_rate after its await
calculate_hit_rate(alerts, future_df, timeframes) ==
    IF future_df = <<>>
    THEN [i \in 1..Len(alerts) |-> [alerts[i] EXCEPT !.hit_rate_calculated = {FALSE}]]
    ELSE [i \in 1..Len(alerts) |->
            [EvaluateAlert(alerts[i], future_df, timeframes)
                EXCEPT !.hit_rate_calculated = {TRUE}]]

\* ---- the inputs of the scanner specification ---------------------------

Enabled == Cond(TRUE, {})
Disabled == Cond(FALSE, {})

SmallParameters ==
    [rsi_period |-> 2, rsi_overbought |-> 70, rsi_oversold |-> 50,
     macd_fast |-> 1, macd_slow |-> 2, macd_signal |-> 2,
     bb_period |-> 3, bb_std |-> 1]

ShortTimeframes == ("15m" :> 15) @@ ("1h" :> 60)

\* a configuration with a horizon of three days
LongTimeframes == ("1h" :> 60) @@ ("3d" :> 4320)

Request(conditions, parameters, timeframes_config) ==
    [symbol |-> Symbol, start |-> 0, end |-> 1440, conditions |-> conditions,
     parameters |-> parameters, timeframes_config |-> timeframes_config]

Requests ==
    { Request([rsi_sobrevendido |-> Enabled, rsi_sobrecomprado |-> Enabled,
               bollinger_abaixo |-> Disabled, preco_baixo |-> Enabled],
              SmallParameters, {ShortTimeframes}),
      Request([bollinger_abaixo |-> Enabled, bollinger_acima |-> Enabled,
               rsi_sobrevendido |-> Disabled, macd_cruz_baixa |-> Disabled],
              SmallParameters, {ShortTimeframes}),
      Request([macd_cruz_alta |-> Enabled, macd_cruz_baixa |-> Enabled],
              SmallParameters, {ShortTimeframes}),
      Request([macd_cruz_alta |-> Enabled, macd_cruz_baixa |-> Enabled,
               rsi_sobrecomprado |-> Disabled],
              [SmallParameters EXCEPT !.macd_signal = 3, !.rsi_oversold = 80],
              {ShortTimeframes}),
      Request([rsi_sobrevendido |-> Disabled, rsi_sobrecomprado |-> Disabled,
               bollinger_abaixo |-> Disabled, bollinger_acima |-> Disabled,
               macd_cruz_alta |-> Disabled, macd_cruz_baixa |-> Disabled,
               hilo_compra |-> Disabled, media_movel_cima |-> Disabled,
               fuga_capital_significativa |-> Enabled],
              SmallParameters, {ShortTimeframes}),
      Request([hilo_compra |-> Enabled, hilo_venda |-> Enabled,
               media_movel_cima |-> Enabled, media_movel_baixo |-> Enabled,
               mme_cruz_dourada |-> Enabled, mme_cruz_morte |-> Enabled,
               bollinger_abaixo |-> Enabled],
              [bb_period |-> 3, bb_std |-> 1], {}),
      Request([rsi_sobrecomprado |-> Enabled], SmallParameters, {ShortTimeframes}) }

RECURSIVE CloseSeqs(_)
CloseSeqs(n) ==
    IF n = 0 THEN {<<>>}
    ELSE LET shorter == CloseSeqs(n - 1)
         IN  shorter \cup { Append(f, c) : f \in {g \in shorter : Len(g) = n - 1},
                                           c \in {1, 2, 3} }

\* hourly bars from the start date
HourlyBars(closes) ==
    [i \in 1..Len(closes) |-> Bar(60 * (i - 1), closes[i], closes[i], closes[i])]

\* the same rows with the last kline delivered twice
LastRowTwice(df) == Append(df, df[Len(df)])

HistoryResponses ==
    { [outcome |-> "ok", pages |-> HourlyBars(c), sample |-> <<>>] :
        c \in CloseSeqs(MaxScanBars) }
    \cup
    { [outcome |-> "ok", pages |-> LastRowTwice(HourlyBars(c)), sample |-> <<>>] :
        c \in {d \in CloseSeqs(MaxScanBars - 1) : Len(d) >= 2} }
    \cup
    { [outcome |-> "exception", pages |-> <<>>, sample |-> <<>>] }
    \cup
    { [outcome |-> "request_exception", pages |-> <<>>, sample |-> c] :
        c \in {d \in CloseSeqs(SampleRecords) : Len(d) = SampleRecords} }

\* forward rows: klines at or after the requested start, oldest first
ForwardBars(start_ms, times, closes) ==
    SelectSeq([i \in 1..Len(times) |-> Bar(times[i], closes[i], closes[i], closes[i])],
              LAMBDA b : b.timestamp >= start_ms)

ForwardTimes == { <<15, 50>>, <<75, 300, 1500>>, <<0>>, <<4400>> }

ForwardCloses == { <<1, 2, 3>>, <<3, 2, 1>>, <<40001, 3, 0>> }

ForwardResponses(start_ms) ==
    { [outcome |-> "ok", pages |-> ForwardBars(start_ms, t, c), sample |-> <<>>] :
        t \in ForwardTimes, c \in ForwardCloses }
    \cup
    { [outcome |-> "exception", pages |-> <<>>, sample |-> <<>>] }
    \cup
    { [outcome |-> "request_exception", pages |-> <<>>, sample |-> c] :
        c \in { [i \in 1..SampleRecords |-> 1 + (i % 3)],
                [i \in 1..SampleRecords |-> 3 - (i % 3)] } }

\* ---- the scanner specification -----------------------------------------

InitScan ==
    /\ LiveIdle
    /\ IndIdle
    /\ ToolsIdle
    /\ historical_df = <<>>
    /\ request \in Requests
    /\ pc = "await_history"
    /\ hist_fetch = "none"
    /\ alerts_df = <<>>
    /\ fwd_fetch = [outcome |-> "none", df |-> <<>>]
    /\ fetches = <<FetchCall("history", "1h", request.start, request.end)>>
    /\ computed = {}
    /\ result = <<>>

\* analyze_historical_alerts from the history await to its return or to the
\* await inside calculate_hit_rate
HistoryFetched ==
    /\ pc = "await_history"
    /\ \E response \in HistoryResponses :
        LET df == fetch_historical_data(request.start, request.end, response)
            records == ScanRecords(df, request.conditions, request.parameters)
        IN  /\ historical_df' = df
            /\ hist_fetch' = response.outcome
            /\ computed' = IF df = <<>> THEN {} ELSE IndicatorCalls(request.conditions)
            /\ IF df = <<>> \/ records = <<>>
               THEN /\ result' = <<>>
                    /\ pc' = "done"
                    /\ UNCHANGED <<alerts_df, fetches>>
               ELSE /\ alerts_df' = InitHitColumns(records, Timeframes(request))
                    /\ fetches' = fetches \o ForwardFetches(records)
                    /\ pc' = "await_future"
                    /\ UNCHANGED result
    /\ UNCHANGED <<liveVars, indVars, toolVars, request, fwd_fetch>>

\* calculate_hit_rate from its await to the return of the caller
FutureFetched ==
    /\ pc = "await_future"
    /\ LET range == FutureRange(alerts_df)
       IN  \E response \in ForwardResponses(range.start) :
            LET future_df == fetch_historical_data(range.start, range.end, response)
            IN  /\ fwd_fetch' = [outcome |-> response.outcome, df |-> future_df]
                /\ result' = calculate_hit_rate(alerts_df, future_df, Timeframes(request))
                /\ pc' = "done"
    /\ UNCHANGED <<liveVars, indVars, toolVars, historical_df, request, hist_fetch, alerts_df,
                   fetches, computed>>

NextScan == HistoryFetched \/ FutureFetched

SpecScan == InitScan /\ [][NextScan]_vars

\* ---- the hit-rate specification: calculate_hit_rate on given alerts ----

AlertInput(t, base, period, price) ==
    ToRecord([timestamp |-> t, close |-> price,
              condition |-> ConditionKey(base, period),
              description |-> Description(base, {})])

AlertInputs ==
    { <<>> }
    \cup
    { <<AlertInput(t, k[1], k[2], price)>> :
        t \in {0, 1430},
        k \in { <<"rsi_sobrevendido", {}>>, <<"macd_cruz_baixa", {}>>,
                <<"media_movel_baixo", {17}>>, <<"preco_baixo", {}>> },
        price \in {0, 3, 40000} }
    \cup
    { <<AlertInput(0, "hilo_compra", {}, 2), AlertInput(t, "hilo_venda", {}, price)>> :
        t \in {60, 1430}, price \in {2, 40000} }

InitHit ==
    /\ LiveIdle
    /\ IndIdle
    /\ ToolsIdle
    /\ historical_df = <<>>
    /\ request \in { Request(<<>>, <<>>, tc) :
                        tc \in {{}, {ShortTimeframes}, {LongTimeframes}} }
    /\ pc = "call_hit_rate"
    /\ hist_fetch = "none"
    /\ alerts_df \in AlertInputs
    /\ fwd_fetch = [outcome |-> "none", df |-> <<>>]
    /\ fetches = <<>>
    /\ computed = {}
    /\ result = <<>>

\* calculate_hit_rate up to its await
CalculateHitRate ==
    /\ pc = "call_hit_rate"
    /\ IF alerts_df = <<>>
       THEN /\ result' = alerts_df
            /\ pc' = "done"
            /\ UNCHANGED <<alerts_df, fetches>>
       ELSE /\ alerts_df' = InitHitColumns(alerts_df, Timeframes(request))
            /\ fetches' = fetches \o ForwardFetches(alerts_df)
            /\ pc' = "await_future"
            /\ UNCHANGED result
    /\ UNCHANGED <<liveVars, indVars, toolVars, historical_df, request, hist_fetch, fwd_fetch,
                   computed>>

NextHit == CalculateHitRate \/ FutureFetched

SpecHit == InitHit /\ [][NextHit]_vars

\* ------------------------------------------------------------------------
\* The warm-up specification: the indicators that take a period, called on
\* a frame of closes with a period of 2 bars or more.
\* ------------------------------------------------------------------------

\* int(np.sqrt(period))
ISqrt(n) == CHOOSE k \in 0..n : k * k <= n /\ n < (k + 1) * (k + 1)

\* 1 + 2 + ... + p, the sum of the weights of wma(s, p)
WeightSum(p) == (p * (p + 1)) \div 2

\* np.dot(window, arange(1, p + 1)) for the window of p values ending at t
WeightedSum(y, p, t) == Sum([k \in 1..p |-> k * y[t - p + k]], 1, p)

\* round(np.sqrt(period)): the nearest whole number
RoundSqrt(n) == CHOOSE k \in 0..n : (2 * k - 1) * (2 * k - 1) < 4 * n
                                    /\ 4 * n < (2 * k + 1) * (2 * k + 1)

\* a variant whose last window is round(sqrt(period))
calculate_hmaMutant(x, period) ==
    LET half_length == period \div 2
        sqrt_length == RoundSqrt(period)
        \* 2 * wma_half - wma_full at bar t >= period, as the numerator over
        \* WeightSum(half_length) * WeightSum(period)
        diff == [t \in 1..Len(x) |->
                    IF t < period THEN 0
                    ELSE 2 * WeightedSum(x, half_length, t) * WeightSum(period)
                         - WeightedSum(x, period, t) * WeightSum(half_length)]
    IN  [t \in 1..Len(x) |->
            IF Len(x) < period \/ t - sqrt_length + 1 < period THEN NaN
            ELSE Val(WeightedSum(diff, sqrt_length, t),
                     WeightSum(sqrt_length) * WeightSum(half_length) * WeightSum(period))]

\* calculate_hma(series, period): wma(2 * wma(s, period/2) - wma(s, period),
\* sqrt(period)); a rolling window with a NaN in it gives NaN
calculate_hma(x, period) ==
    LET half_length == period \div 2
        sqrt_length == ISqrt(period)
        \* 2 * wma_half - wma_full at bar t >= period, as the numerator over
        \* WeightSum(half_length) * WeightSum(period)
        diff == [t \in 1..Len(x) |->
                    IF t < period THEN 0
                    ELSE 2 * WeightedSum(x, half_length, t) * WeightSum(period)
                         - WeightedSum(x, period, t) * WeightSum(half_length)]
    IN  [t \in 1..Len(x) |->
            IF Len(x) < period \/ t - sqrt_length + 1 < period THEN NaN
            ELSE Val(WeightedSum(diff, sqrt_length, t),
                     WeightSum(sqrt_length) * WeightSum(half_length) * WeightSum(period))]

\* the three series calculate_bollinger_bands returns, as defined-or-NaN
BollingerDefined(df, period) ==
    LET w == calculate_bollinger_bands(df, period)
    IN  [t \in 1..Len(df) |->
            [upper_band |-> w[t].def, lower_band |-> w[t].def, sma |-> w[t].n >= 1]]

InitWarm ==
    /\ LiveIdle
    /\ IndIdle
    /\ ToolsIdle
    /\ ScanIdle
    /\ historical_df \in { Stamped(f) : f \in Frames(MaxBars, 0) }

\* every indicator called once with the same period
ComputeValues ==
    /\ ind_values = <<>>
    /\ \E period \in 2..MaxBars :
        LET x == Column(historical_df, "close")
        IN  ind_values' = [period |-> period,
                           sma |-> calculate_sma(x, period),
                           ema |-> calculate_ema(x, period),
                           bollinger |-> BollingerDefined(historical_df, period),
                           hma |-> calculate_hma(x, period),
                           rsi |-> calculate_rsi(historical_df, period)]
    /\ UNCHANGED <<liveVars, scanVars, toolVars, historical_df, ind_params, ind_series, ind_latest>>

NextWarm == ComputeValues

SpecWarm == InitWarm /\ [][NextWarm]_vars

\* ------------------------------------------------------------------------
\* Claims about the live evaluator (checked under SpecLive)
\* ------------------------------------------------------------------------

\* a step of RunSingleSymbolUpdate
EvaluationStep == n_evals' # n_evals

\* C1 as stated: a key whose alert was emitted at time t is emitted again
\* only by an evaluation at a time now > t + alert_cooldown_minutes.
C1_NoAlertUntilAfterCooldown ==
    [][ EvaluationStep =>
          \A k \in TriggerKeys(triggered_alerts') :
              Has(last_emitted, k) =>
                  now' > last_emitted[k] + AlertCooldownMinutes(alert_config) ]_vars

\* C1 amended: after an alert for a key at time t, no evaluation at a time
\* now < t + alert_cooldown_minutes emits that key again, and every
\* evaluation at now >= t + alert_cooldown_minutes in which the key's
\* condition is active emits it (the key is Armed again from t + cooldown on).
C1_CooldownWindow ==
    [][ (EvaluationStep /\ ~raised') =>
          \A k \in DOMAIN last_emitted :
              LET armed == now' >= last_emitted[k] + AlertCooldownMinutes(alert_config)
                  active == k \in Range(ActiveTriggers(alert_config.conditions, analysis_data',
                                                       alert_config'.death_cross_active))
              IN  (k \in TriggerKeys(triggered_alerts')) <=> (active /\ armed) ]_vars

\* C1 witness: an evaluation found HiLo Sell active again one minute after
\* its alert, inside a two-minute cooldown, and emitted nothing for it.
C1_Witness ==
    /\ n_evals >= 2
    /\ AlertCooldownMinutes(alert_config) = 2
    /\ ConditionEnabled(alert_config.conditions, "hilo_venda")
    /\ analysis_data.hilo_signal = "HiLo Sell"
    /\ Has(last_emitted, "HILO_VENDA")
    /\ last_emitted["HILO_VENDA"] = now - 1
    /\ "HILO_VENDA" \notin TriggerKeys(triggered_alerts)

\* C2: while the Filter Mode is active no evaluation emits HILO_COMPRA or
\* MEDIA_MOVEL_CIMA, and the sell-side keys HILO_VENDA and MEDIA_MOVEL_BAIXO
\* are still emitted whenever their condition is active and out of cooldown.
C2_FilterModeSuppressesBuySide ==
    [][ (EvaluationStep /\ alert_config'.death_cross_active) =>
          /\ TriggerKeys(triggered_alerts') \cap {"HILO_COMPRA", "MEDIA_MOVEL_CIMA"} = {}
          /\ \A k \in {"HILO_VENDA", "MEDIA_MOVEL_BAIXO"} :
               ( /\ ~raised'
                 /\ k \in Range(ActiveTriggers(alert_config.conditions, analysis_data', TRUE))
                 /\ ~(Has(last_emitted, k)
                      /\ now' - last_emitted[k] < AlertCooldownMinutes(alert_config)) )
               => k \in TriggerKeys(triggered_alerts') ]_vars

\* C2 witness: the Filter Mode is active, HiLo Buy is enabled, present in the
\* snapshot and was never emitted (so not in cooldown), and a sell-side alert
\* was emitted by an evaluation under the mode.
C2_Witness ==
    /\ alert_config.death_cross_active
    /\ ConditionEnabled(alert_config.conditions, "hilo_compra")
    /\ analysis_data.hilo_signal = "HiLo Buy"
    /\ ~Has(last_emitted, "HILO_COMPRA")
    /\ Has(last_emitted, "HILO_VENDA")
    /\ triggered_alerts = <<>>

\* C3 as stated: the Filter Mode is entered exactly by the evaluations that
\* emit the death-cross alert, left exactly by those that emit the
\* golden-cross alert, and kept by every other evaluation.
C3_ModeFollowsEmittedAlerts ==
    [][ EvaluationStep =>
          alert_config'.death_cross_active =
              IF "CRUZ_DA_MORTE" \in TriggerKeys(triggered_alerts') THEN TRUE
              ELSE IF "CRUZ_DOURADA" \in TriggerKeys(triggered_alerts') THEN FALSE
              ELSE alert_config.death_cross_active ]_vars

\* C3 amended: the Filter Mode is entered by exactly the evaluations whose
\* snapshot reports mme_cross = "Cruz da Morte" and left by exactly those
\* whose snapshot reports "Cruz Dourada", whether or not the matching alert
\* is enabled or emitted; every other evaluation, and the passing of time,
\* keeps the mode.
C3_ModeFollowsSnapshotCross ==
    [][ alert_config'.death_cross_active =
          IF EvaluationStep /\ analysis_data'.mme_cross = "Cruz da Morte" THEN TRUE
          ELSE IF EvaluationStep /\ analysis_data'.mme_cross = "Cruz Dourada" THEN FALSE
          ELSE alert_config.death_cross_active ]_vars

\* C3 witness: the mode was entered by a snapshot with a death cross although
\* the death-cross condition is not configured and no alert was emitted.
C3_Witness ==
    /\ alert_config.death_cross_active
    /\ analysis_data.mme_cross = "Cruz da Morte"
    /\ ~ConditionEnabled(alert_config.conditions, "mme_cruz_morte")
    /\ "CRUZ_DA_MORTE" \notin TriggerKeys(triggered_alerts)

\* ------------------------------------------------------------------------
\* Claims about the indicator library (checked under SpecInd)
\* ------------------------------------------------------------------------

\* C8: for MACD, HiLo and MA-cross the signal of the full-series mode at bar
\* t equals the signal of the latest-only mode on the bars up to t, for every
\* bar t beyond the indicator's warm-up (slow + signal bars for MACD,
\* length + offset + 1 for HiLo, period + 1 for MA-cross).
C8_SeriesEqualsLatest ==
    (ind_series # NoSignals /\ ind_latest # NoSignals) =>
        \A t \in 1..Len(historical_df) :
            /\ t >= ind_params.slow + ind_params.signal
                  => ind_series.macd[t] = ind_latest.macd[t]
            /\ t >= ind_params.length + ind_params.offset + 1
                  => ind_series.hilo[t] = ind_latest.hilo[t]
            /\ t >= ind_params.period + 1
                  => ind_series.media_movel[t] = ind_latest.media_movel[t]

\* C8 witness: both modes were computed on a frame on which each of the three
\* indicators reports a crossover beyond its warm-up.
C8_Witness ==
    /\ ind_series # NoSignals
    /\ ind_latest # NoSignals
    /\ \E t \in 1..Len(historical_df) :
          t >= ind_params.slow + ind_params.signal /\ ind_latest.macd[t] = "Cruzamento de Alta"
    /\ \E t \in 1..Len(historical_df) :
          t >= ind_params.length + ind_params.offset + 1 /\ ind_latest.hilo[t] = "HiLo Sell"
    /\ \E t \in 1..Len(historical_df) :
          t >= ind_params.period + 1 /\ ind_latest.media_movel[t] = "Cruzamento de Baixa"

\* ------------------------------------------------------------------------
\* Claims about the historical scanner (checked under SpecScan)
\* ------------------------------------------------------------------------

Returned == pc = "done"

\* the rows the frame would give with every configured key switched on
AllOn(conditions) == [k \in DOMAIN conditions |-> Enabled]

C5_NoDuplicatePairs ==
    \A i, j \in 1..Len(result) :
        i # j => ~ /\ result[i].timestamp = result[j].timestamp
                   /\ result[i].description = result[j].description

\* a returned list that is shorter than the concatenated rows: a duplicate
\* pair was dropped
C5_Witness ==
    /\ Returned
    /\ result # <<>>
    /\ Len(result) < Len(AlertRows(historical_df, request.conditions,
                                   request.parameters))

\* the bars of the fetched frame where the MACD line crosses the signal line
MacdParams == [fast |-> ParamGet(request.parameters, "macd_fast", 12),
               slow |-> ParamGet(request.parameters, "macd_slow", 26),
               signal |-> ParamGet(request.parameters, "macd_signal", 9)]

UpCrossBars ==
    { t \in 1..Len(historical_df) :
        MacdHighCross(Column(historical_df, "close"),
                      MacdParams.fast, MacdParams.slow, MacdParams.signal, t) }

DownCrossBars ==
    { t \in 1..Len(historical_df) :
        MacdLowCross(Column(historical_df, "close"),
                     MacdParams.fast, MacdParams.slow, MacdParams.signal, t) }

\* the timestamps of the returned records of one condition, as a sequence
RecordTimes(base) ==
    LET recs == SelectSeq(result, LAMBDA r : r.condition.base = base)
    IN  [i \in 1..Len(recs) |-> ToDatetime(recs[i].timestamp)]

OnceUpOnceDown ==
    /\ Returned
    /\ ConditionEnabled(request.conditions, "macd_cruz_alta")
    /\ ConditionEnabled(request.conditions, "macd_cruz_baixa")
    /\ Cardinality(UpCrossBars) = 1
    /\ Cardinality(DownCrossBars) = 1

RsiBelowOversold(t) ==
    ValLt(calculate_rsi(historical_df,
                        ParamGet(request.parameters, "rsi_period", 14))[t],
          Val(ParamGet(request.parameters, "rsi_oversold", 30), 1))

FetchFailures == {"exception", "request_exception"}

\* C10 as stated: after a failed history fetch the scanner returns an empty
\* list, and after a failed forward fetch every alert has
\* hit_rate_calculated = false and null hit and pct_change fields.
C10_FailedFetchSoftFails ==
    Returned =>
        /\ hist_fetch \in FetchFailures => result = <<>>
        /\ fwd_fetch.outcome \in FetchFailures =>
              \A i \in 1..Len(result) :
                  /\ result[i].hit_rate_calculated = {FALSE}
                  /\ \A tf \in DOMAIN result[i].hit :
                        result[i].hit[tf] = {} /\ result[i].pct_change[tf] = {}

\* ------------------------------------------------------------------------
\* Claims about calculate_hit_rate (checked under SpecHit)
\* ------------------------------------------------------------------------

\* the first forward bar at or after the alert's time plus the horizon
ForwardBar(alert, tf) ==
    LET due == ToDatetime(alert.timestamp) + Timeframes(request)[tf]
        later == { i \in 1..Len(fwd_fetch.df) : fwd_fetch.df[i].timestamp >= due }
    IN  IF later = {} THEN {}
        ELSE {fwd_fetch.df[CHOOSE i \in later : \A j \in later : i <= j]}

\* alert i of the result is evaluated at horizon tf
Evaluated(i, tf) ==
    /\ Returned
    /\ i \in 1..Len(result)
    /\ fwd_fetch.df # <<>>
    /\ SignalType(result[i].condition) # {}
    /\ tf \in DOMAIN Timeframes(request)
    /\ ForwardBar(result[i], tf) # {}

Bias(i) == OrDefault(SignalType(result[i].condition), "none")

FutureClose(i, tf) == OrDefault(ForwardBar(result[i], tf), <<>>).close

C7_NullWithoutForwardBar ==
    /\ \A i \in 1..Len(result), tf \in DOMAIN Timeframes(request) :
          (Returned /\ ForwardBar(result[i], tf) = {})
              => result[i].hit[tf] = {} /\ result[i].pct_change[tf] = {}
    /\ \A i \in 1..Len(alerts_df) :
          pc = "await_future" =>
              \A tf \in DOMAIN Timeframes(request) :
                  alerts_df[i].hit[tf] = {} /\ alerts_df[i].pct_change[tf] = {}

\* an alert with a value at one horizon and null at a longer one, beyond
\* the end of the forward frame
C7_Witness ==
    \E i \in 1..Len(result), tf1, tf2 \in DOMAIN Timeframes(request) :
        /\ Evaluated(i, tf1)
        /\ result[i].hit[tf1] # {}
        /\ ForwardBar(result[i], tf2) = {}
        /\ result[i].hit[tf2] = {}

Chronological(alerts) ==
    \A i, j \in 1..Len(alerts) :
        i < j => ToDatetime(alerts[i].timestamp) <= ToDatetime(alerts[j].timestamp)

\* C12: the alerts the scanner hands to the hit-rate pass and the list it
\* returns after that pass are in non-decreasing timestamp order.
C12_ChronologicalOrder ==
    Chronological(alerts_df) /\ Chronological(result)

\* a returned list whose rows were out of order when concatenated: a later
\* block holds an earlier bar than a block before it
C12_Witness ==
    /\ Returned
    /\ Len(result) >= 2
    /\ LET rows == AlertRows(historical_df, request.conditions, request.parameters)
       IN  \E i, j \in 1..Len(rows) :
              i < j /\ rows[i].timestamp > rows[j].timestamp

\* ------------------------------------------------------------------------
\* Claims about the warm-up of the indicators (checked under SpecWarm)
\* ------------------------------------------------------------------------

Computed == ind_values # <<>>

\* the bars on which a value series is defined
DefinedBars(series) == { t \in 1..Len(series) : series[t].def }

BandBars(name) ==
    { t \in 1..Len(ind_values.bollinger) : ind_values.bollinger[t][name] }

\* the bars of a series shorter than the period: none; of a series of
\* exactly period bars: the last one only
WarmUpAtPeriod(bars) ==
    /\ Len(historical_df) < ind_values.period => bars = {}
    /\ Len(historical_df) = ind_values.period => bars = {Len(historical_df)}

EmaCrossKeys == {"mme_cruz_dourada", "mme_cruz_morte"}

\* the output columns of the scan, without the hit-rate columns, the
\* timestamp as the instant it denotes
ScanColumns(alerts) ==
    [i \in 1..Len(alerts) |->
        [f \in {"timestamp", "symbol", "condition", "description", "snapshot"} |->
            IF f = "timestamp" THEN ToDatetime(alerts[i][f]) ELSE alerts[i][f]]]

\* the request's conditions without the given keys
Without(conditions, ks) == [k \in DOMAIN conditions \ ks |-> conditions[k]]

\* the rows of the given conditions alone, sorted and de-duplicated
RecordsOf(conditions) ==
    LET rows == DropDuplicates(SortIndex(AlertRows(historical_df, conditions,
                                                   request.parameters)))
    IN  [i \in 1..Len(rows) |-> ToRecord(rows[i])]

ThresholdTriggers ==
    [PRECO_ABAIXO |-> "PRECO_ABAIXO", PRECO_ACIMA |-> "PRECO_ACIMA",
     rsi_sobrevendido |-> "RSI_SOBREVENDA", rsi_sobrecomprado |-> "RSI_SOBRECOMPRA"]

\* C15 as stated: an enabled condition whose threshold value is missing
\* emits no alert, the evaluation does not raise, and the other enabled
\* conditions are still evaluated (on the first evaluation, with no
\* cooldown yet, an enabled HiLo sell condition fires on a HiLo Sell
\* snapshot).
C15_MissingValueIsSkipped ==
    n_evals > 0 =>
        /\ ~raised
        /\ \A k \in DOMAIN ThresholdTriggers :
              (ConditionEnabled(alert_config.conditions, k)
                 /\ ValueMissing(alert_config.conditions, k))
                  => ThresholdTriggers[k] \notin TriggerKeys(triggered_alerts)
        /\ (n_evals = 1 /\ ConditionEnabled(alert_config.conditions, "hilo_venda")
                        /\ analysis_data.hilo_signal = "HiLo Sell")
              => "HILO_VENDA" \in TriggerKeys(triggered_alerts)

\* ------------------------------------------------------------------------
\* The live per-symbol analyzer, _analyze_symbol (monitoring_service.py).
\* The k-lines window is historical_df with a volume on every bar; the
\* snapshot it returns is written to analysis_data.  A snapshot is a
\* dictionary: a field the code does not store is not in its DOMAIN.
\* The ticker fields (24h change, 24h volume, market cap, timestamp) come
\* from the ticker and the clock, not from the window, and are left out.
\* ------------------------------------------------------------------------

\* the k-lines window: the bars of df, each with the volume v
Klines(df, v) == [i \in 1..Len(df) |-> df[i] @@ [volume |-> v]]

\* calculate_vwap(df): (p * v).cumsum() / v.cumsum(); 0/0 is NaN
calculate_vwap(df) ==
    LET pv == [i \in 1..Len(df) |-> df[i].close * df[i].volume]
        v == Column(df, "volume")
    IN  [t \in 1..Len(df) |->
            IF Sum(v, 1, t) = 0 THEN NaN ELSE Val(Sum(pv, 1, t), Sum(v, 1, t))]

\* x.iloc[-1] if pd.notna(x.iloc[-1]) else 0.0
LastOrZero(series) ==
    IF Len(series) > 0 /\ series[Len(series)].def THEN series[Len(series)] ELSE Val(0, 1)

\* lines 405-409: the golden/death cross of EMA 50 against EMA 200
MmeCross(df) ==
    IF Len(df) < 200 \/ Len(df) <= 1 THEN "Nenhum"
    ELSE LET n == Len(df)
             ema50 == calculate_ema(Column(df, "close"), 50)
             ema200 == calculate_ema(Column(df, "close"), 200)
         IN  IF ValLt(ema50[n - 1], ema200[n - 1]) /\ ValLt(ema200[n], ema50[n])
             THEN "Cruz Dourada"
             ELSE IF ValLt(ema200[n - 1], ema50[n - 1]) /\ ValLt(ema50[n], ema200[n])
             THEN "Cruz da Morte"
             ELSE "Nenhum"

\* lines 411-414: the periods whose latest signal is not "Nenhum"
MediaMovelCrossDict(df) ==
    LET signal(p) == calculate_media_movel_cross_latest(df, p)
    IN  [p \in {q \in {17, 34, 72, 90, 100, 144, 200} : signal(q) # "Nenhum"} |-> signal(p)]

\* calculate_macd(df)[1..3], the live mode: the latest macd, signal line and
\* histogram, 0 for a window shorter than slow + signal
MacdValues(df, fast, slow, signal) ==
    IF Len(df) < slow + signal
    THEN [macd_value |-> Val(0, 1), macd_signal_line |-> Val(0, 1),
          macd_histogram |-> Val(0, 1)]
    ELSE LET x == Column(df, "close")
             n == Len(df)
             d == Pow((fast + 1) * (slow + 1), n - 1)
         IN  [macd_value |-> Val(MacdNum(x, fast, slow, n), d),
              macd_signal_line |->
                  Val(SignalLineNum(x, fast, slow, signal, n), d * Pow(signal + 1, n - 1)),
              macd_histogram |->
                  Val(HistogramNum(x, fast, slow, signal, n), d * Pow(signal + 1, n - 1))]

\* lines 390-394, on positive prices
BollingerSignal(df) ==
    LET w == calculate_bollinger_bands(df, 20)[Len(df)]
        price == df[Len(df)].close
    IN  IF w.def /\ price > 0 /\ AboveUpperBand(price, w, 2) THEN "Acima da Banda"
        ELSE IF w.def /\ price > 0 /\ BelowLowerBand(price, w, 2) THEN "Abaixo da Banda"
        ELSE "Nenhum"

\* _analyze_symbol(symbol, ticker_data): the snapshot of the window df
analyze_symbol(df) ==
    IF Len(df) = 0
    THEN [symbol |-> Symbol, price |-> Val(0, 1),
          hma_active |-> FALSE, vwap_active |-> FALSE]
    ELSE LET n == Len(df)
             latest_hma == calculate_hma(Column(df, "close"), 21)[n]
             latest_vwap == calculate_vwap(df)[n]
             current_price == Val(df[n].close, 1)
             macd == MacdValues(df, 12, 26, 9)
         IN  [symbol |-> Symbol,
              price |-> current_price,
              rsi_value |-> LastOrZero(calculate_rsi(df, 14)),
              bollinger_signal |-> BollingerSignal(df),
              macd_signal |-> calculate_macd_latest(df, 12, 26, 9),
              macd_value |-> macd.macd_value,
              macd_signal_line |-> macd.macd_signal_line,
              macd_histogram |-> macd.macd_histogram,
              mme_cross |-> MmeCross(df),
              mme_200 |-> IF n >= 200 THEN calculate_ema(Column(df, "close"), 200)[n]
                          ELSE Val(0, 1),
              hilo_signal |-> calculate_hilo_signals_latest(df, 34, "EMA", 0),
              media_movel_cross |-> MediaMovelCrossDict(df),
              hma |-> latest_hma,
              hma_active |-> IF latest_hma # Val(0, 1)
                             THEN ValLt(latest_hma, current_price) ELSE FALSE,
              vwap |-> latest_vwap,
              vwap_active |-> IF latest_vwap # Val(0, 1)
                              THEN ValLt(latest_vwap, current_price) ELSE FALSE]

\* the traded volume of every bar of a window
Volumes == {0, 2}

InitAnalyze ==
    /\ IndIdle
    /\ ToolsIdle
    /\ ScanIdle
    /\ alert_config = <<>>
    /\ now = 0
    /\ analysis_data = <<>>
    /\ triggered_alerts = <<>>
    /\ raised = FALSE
    /\ n_evals = 0
    /\ last_emitted = <<>>
    /\ historical_df \in { Klines(f, v) : f \in Frames(MaxBars, 1), v \in Volumes }

\* analysis_data = _analyze_symbol(symbol, ticker_data)
AnalyzeSymbol ==
    /\ analysis_data = <<>>
    /\ analysis_data' = analyze_symbol(historical_df)
    /\ UNCHANGED <<alert_config, now, triggered_alerts, raised, n_evals,
                   last_emitted, historical_df, indVars, scanVars, toolVars>>

NextAnalyze == AnalyzeSymbol

SpecAnalyze == InitAnalyze /\ [][NextAnalyze]_vars

\* ------------------------------------------------------------------------
\* Claims about the live analyzer (checked under SpecAnalyze)
\* ------------------------------------------------------------------------

\* the indicator fields of the snapshot contract
IndicatorFields ==
    {"rsi_value", "bollinger_signal", "macd_signal", "macd_value",
     "macd_signal_line", "macd_histogram", "mme_cross", "hilo_signal",
     "media_movel_cross", "hma", "hma_active", "vwap", "vwap_active"}

\* a window with too few bars for every indicator that needs a warm-up
\* (the shortest, RSI, needs 15 bars)
TooShort(df) == Len(df) < 15

\* C16 as stated: the snapshot of an empty or too-short window holds every
\* indicator field of the contract, each at its zero/default value.
C16_DegradedSnapshotIsComplete ==
    (analysis_data # <<>> /\ TooShort(historical_df)) =>
        /\ IndicatorFields \subseteq DOMAIN analysis_data
        /\ analysis_data.rsi_value = Val(0, 1)
        /\ analysis_data.bollinger_signal = "Nenhum"
        /\ analysis_data.macd_signal \in {"Nenhum", "N/A"}
        /\ analysis_data.macd_value = Val(0, 1)
        /\ analysis_data.macd_signal_line = Val(0, 1)
        /\ analysis_data.macd_histogram = Val(0, 1)
        /\ analysis_data.mme_cross = "Nenhum"
        /\ analysis_data.hilo_signal = "Nenhum"
        /\ analysis_data.media_movel_cross = <<>>
        /\ analysis_data.hma = Val(0, 1)
        /\ analysis_data.hma_active = FALSE
        /\ analysis_data.vwap = Val(0, 1)
        /\ analysis_data.vwap_active = FALSE

\* ------------------------------------------------------------------------
\* More claims about the historical scanner (checked under SpecScan)
\* ------------------------------------------------------------------------

\* flat at one price, then rising, then flat at a higher price
FlatSpikeFlat(df) ==
    LET x == Column(df, "close")
        n == Len(x)
    IN  \E i \in 2..n, j \in 3..(n - 1) :
            /\ i < j
            /\ \A t \in 1..i : x[t] = x[1]
            /\ \A t \in i..(j - 1) : x[t] < x[t + 1]
            /\ \A t \in j..n : x[t] = x[n]

\* the records of the scan in progress or finished
ScanOutput == IF pc = "await_future" THEN alerts_df ELSE result

\* the instants of the scan's records for one base condition
TimesOf(base) ==
    { ToDatetime(ScanOutput[i].timestamp) :
        i \in { k \in 1..Len(ScanOutput) : ScanOutput[k].condition.base = base } }

\* the bars at which the RSI is at or above the overbought threshold
OverboughtBars ==
    LET rsi == calculate_rsi(historical_df, ParamGet(request.parameters, "rsi_period", 14))
    IN  { t \in 1..Len(historical_df) :
            ValLe(Val(ParamGet(request.parameters, "rsi_overbought", 70), 1), rsi[t]) }

\* C17 as stated: with only the RSI-overbought condition enabled, a
\* flat-then-spiking-then-flat history gives exactly one alert, at the first
\* bar whose RSI is at or above the threshold.
C17_OneAlertPerRsiCrossing ==
    (/\ pc # "await_history"
     /\ hist_fetch = "ok"
     /\ fwd_fetch.outcome = "none"
     /\ DOMAIN request.conditions = {"rsi_sobrecomprado"}
     /\ FlatSpikeFlat(historical_df))
        => /\ Cardinality(TimesOf("rsi_sobrecomprado")) = 1
           /\ \A t \in OverboughtBars :
                 (t - 1) \notin OverboughtBars
                     => historical_df[t].timestamp \in TimesOf("rsi_sobrecomprado")

\* ------------------------------------------------------------------------
\* The on-demand monitoring cycle, run_monitoring_cycle, for one symbol.
\* The cycle evaluates a deep copy of config["cryptos_to_monitor"] (line
\* 431): the Filter Mode flag and the cooldown timestamps which the
\* evaluation stores go to the copy, and alert_config, the configuration
\* the next cycle is given, keeps its value.
\* ------------------------------------------------------------------------
RunMonitoringCycle ==
    /\ n_evals < MaxEvals
    /\ \E snap \in Snapshots(alert_config.conditions) :
        LET crypto_config == alert_config
            r == CheckAndTriggerAlerts(crypto_config, snap, now)
        IN  /\ analysis_data' = snap
            /\ triggered_alerts' = r.triggered_alerts
            /\ raised' = r.raised
            /\ n_evals' = n_evals + 1
            /\ last_emitted' =
                  [ k \in TriggerKeys(r.triggered_alerts) |-> now ] @@ last_emitted
            /\ UNCHANGED <<alert_config, now, historical_df, indVars, scanVars, toolVars>>

NextCycle == Tick \/ RunMonitoringCycle

SpecCycle == InitLive /\ [][NextCycle]_vars

\* ------------------------------------------------------------------------
\* Claims about the monitoring cycle (checked under SpecCycle)
\* ------------------------------------------------------------------------

\* C18 as stated: a cycle reads the cooldown timestamps and the Filter Mode
\* flag the cycle before it wrote.  A key emitted less than the cooldown ago
\* is not emitted again, and after a cycle whose snapshot held a death cross
\* a cycle with no cross in its snapshot emits no buy-side key.
C18_CycleReadsWhatLastCycleWrote ==
    [][ EvaluationStep =>
          /\ \A k \in TriggerKeys(triggered_alerts') :
                ~(Has(last_emitted, k)
                  /\ now' - last_emitted[k] < AlertCooldownMinutes(alert_config))
          /\ (n_evals > 0 /\ ~raised /\ analysis_data.mme_cross = "Cruz da Morte"
                          /\ analysis_data'.mme_cross = "Nenhum")
                => TriggerKeys(triggered_alerts') \cap {"HILO_COMPRA", "MEDIA_MOVEL_CIMA"} = {} ]_vars

\* ------------------------------------------------------------------------
\* The scanner against the live evaluator (checked under SpecScan)
\* ------------------------------------------------------------------------

\* the whole part of a value that is not NaN
Floor(v) == v.num \div v.den

\* The snapshot of the window ending at bar t, as the live evaluator reads
\* it, with the RSI and the MACD computed in latest-only mode with the
\* request's periods.  The RSI is floored: the evaluator compares it with
\* whole thresholds by < and >= only.
WindowSnapshot(t) ==
    LET window == Prefix(historical_df, t)
        p == request.parameters
        rsi == LastOrZero(calculate_rsi(window, ParamGet(p, "rsi_period", 14)))
    IN  [ degraded |-> FALSE, price |-> window[t].close, rsi_value |-> Floor(rsi),
          macd_value |-> 0, mme_cross |-> MmeCross(window), mme_200 |-> 0,
          bollinger_signal |-> "Nenhum",
          macd_signal |-> calculate_macd_latest(window, ParamGet(p, "macd_fast", 12),
                                                ParamGet(p, "macd_slow", 26),
                                                ParamGet(p, "macd_signal", 9)),
          hilo_signal |-> calculate_hilo_signals_latest(window, 34, "EMA", 0),
          media_movel_cross |-> MediaMovelCrossDict(window) ]

\* the live evaluator emits the key on that snapshot, with no cooldown and
\* the Filter Mode inactive
LiveEmits(key, t) ==
    key \in Range(ActiveTriggers(request.conditions, WindowSnapshot(t), FALSE))

\* the bars whose window is long enough for the live MACD and RSI
LongEnough(t) ==
    /\ t >= ParamGet(request.parameters, "macd_slow", 26)
              + ParamGet(request.parameters, "macd_signal", 9)
    /\ calculate_rsi(Prefix(historical_df, t),
                     ParamGet(request.parameters, "rsi_period", 14))[t].def

\* C19 as stated, for the MACD bullish cross: the scanner has an alert at
\* bar t exactly when the live evaluator emits the alert on the snapshot of
\* the window ending at bar t (bars of distinct instants, windows long
\* enough for both indicators).
C19_ScannerMatchesLiveEvaluator ==
    (/\ pc # "await_history"
     /\ hist_fetch = "ok"
     /\ fwd_fetch.outcome = "none"
     /\ ConditionEnabled(request.conditions, "macd_cruz_alta")
     /\ \A i, j \in 1..Len(historical_df) :
           i < j => historical_df[i].timestamp < historical_df[j].timestamp)
        => \A t \in 1..Len(historical_df) :
              LongEnough(t) =>
                  (historical_df[t].timestamp \in TimesOf("macd_cruz_alta")
                      <=> LiveEmits("CRUZAMENTO_MACD_ALTA", t))

\* ------------------------------------------------------------------------
\* The forward-data request (checked under SpecHit)
\* ------------------------------------------------------------------------

\* C20 as stated: when the forward data is requested, the instant looked up
\* for every alert and every configured horizon lies inside the requested
\* range [start, end).
C20_RequestCoversEveryHorizon ==
    pc = "await_future" =>
        \A i \in 1..Len(alerts_df), tf \in DOMAIN Timeframes(request) :
            LET future_time == ToDatetime(alerts_df[i].timestamp) + Timeframes(request)[tf]
                range == FutureRange(alerts_df)
            IN  range.start <= future_time /\ future_time < range.end

\* ------------------------------------------------------------------------
\* The calls of the fetcher (checked under SpecScan and SpecHit)
\* ------------------------------------------------------------------------

\* the kinds of the calls made so far, in order
FetchKinds == [i \in 1..Len(fetches) |-> fetches[i].kind]

\* C21 (the scanner): analyze_historical_alerts makes the history fetch
\* first and at most one more, the forward fetch, which it makes only after
\* the history has arrived and only when it found at least one alert; the
\* forward fetch is a single call however many alerts and horizons there are.
C21_AtMostTwoFetches ==
    /\ FetchKinds \in { <<"history">>, <<"history", "forward">> }
    /\ (FetchKinds = <<"history", "forward">>)
          <=> (hist_fetch # "none" /\ Len(IF pc = "done" /\ fwd_fetch.outcome = "none"
                                           THEN result ELSE alerts_df) > 0)

\* a scan that found several alerts, with several horizons, made one
\* forward fetch
C21_Witness ==
    /\ Returned
    /\ Len(result) >= 3
    /\ Cardinality(DOMAIN Timeframes(request)) >= 2
    /\ FetchKinds = <<"history", "forward">>

\* the conditions whose mask reads the result of an indicator function
ConditionsUsing ==
    [calculate_rsi |-> {"rsi_sobrevendido", "rsi_sobrecomprado", "macd_cruz_alta"},
     calculate_bollinger_bands |-> {"bollinger_abaixo", "bollinger_acima"},
     calculate_macd |-> {"macd_cruz_alta", "macd_cruz_baixa"},
     calculate_emas |-> {"mme_cruz_dourada", "mme_cruz_morte"},
     calculate_hilo_signals |-> {"hilo_compra", "hilo_venda"},
     calculate_hma |-> {},
     calculate_vwap |-> {},
     calculate_media_movel_cross |-> {"media_movel_cima", "media_movel_baixo"}]

\* C22 as stated: the scan calls an indicator function only if at least
\* one condition that uses it is enabled.
C22_OnlyNeededIndicators ==
    \A f \in computed :
        \E k \in ConditionsUsing[f] : ConditionEnabled(request.conditions, k)

\* ------------------------------------------------------------------------
\* The bias of an alert (checked under SpecHit)
\* ------------------------------------------------------------------------

BuyBases ==
    {"rsi_sobrevendido", "bollinger_abaixo", "macd_cruz_alta", "mme_cruz_dourada",
     "hilo_compra", "media_movel_cima"}

SellBases ==
    {"rsi_sobrecomprado", "bollinger_acima", "macd_cruz_baixa", "mme_cruz_morte",
     "hilo_venda", "media_movel_baixo"}

\* every condition key the scanner can emit
EmittableKeys ==
    { ConditionKey(base, {}) :
        base \in (BuyBases \cup SellBases) \ {"media_movel_cima", "media_movel_baixo"} }
    \cup
    { ConditionKey(base, {period}) :
        base \in {"media_movel_cima", "media_movel_baixo"}, period \in {17, 34, 72, 144} }

\* the entries of the mapping table the condition starts with
Matching(condition) ==
    { i \in 1..Len(MappingItems) :
        StartsWith(ConditionText(condition), KeyWords[MappingItems[i]]) }

ExpectedBias(condition) == IF condition.base \in BuyBases THEN "buy" ELSE "sell"

\* C23: every key the scanner can emit starts with exactly one key of the
\* mapping table (so the order of the table does not matter) and gets the
\* bias of its side; an evaluated alert's hit follows that bias; an alert
\* whose key starts with no key of the table keeps null hit and pct_change
\* at every horizon.
C23_EveryKeyHasOneBias ==
    /\ \A c \in EmittableKeys :
          Cardinality(Matching(c)) = 1 /\ SignalType(c) = {ExpectedBias(c)}
    /\ \A i \in 1..Len(result), tf \in DOMAIN Timeframes(request) :
          IF Matching(result[i].condition) = {}
          THEN result[i].hit[tf] = {} /\ result[i].pct_change[tf] = {}
          ELSE Evaluated(i, tf) =>
                 LET price == result[i].snapshot.price
                     bias == ExpectedBias(result[i].condition)
                 IN  result[i].hit[tf]
                       = { /\ price # 0
                           /\ \/ bias = "buy" /\ FutureClose(i, tf) > price
                              \/ bias = "sell" /\ FutureClose(i, tf) < price }

\* a moving-average cross alert with its period in the key was evaluated as
\* a sell signal and came out a hit
C23_Witness ==
    \E i \in 1..Len(result), tf \in DOMAIN Timeframes(request) :
        /\ result[i].condition = ConditionKey("media_movel_baixo", {17})
        /\ Evaluated(i, tf)
        /\ result[i].hit[tf] = {TRUE}

\* ------------------------------------------------------------------------
\* The frame of calculate_hit_rate (checked under SpecHit)
\* ------------------------------------------------------------------------

\* the columns calculate_hit_rate adds
HitColumns == {"hit", "pct_change", "hit_rate_calculated"}

\* the alerts after a step are the alerts before it: as many, in the same
\* order, with the same symbol, condition, description and trigger price and
\* the same instant, and with no column other than the hit-rate columns added
SameAlerts(before, after) ==
    /\ Len(after) = Len(before)
    /\ \A i \in 1..Len(before) :
          /\ \A f \in {"symbol", "condition", "description", "snapshot"} :
                after[i][f] = before[i][f]
          /\ ToDatetime(after[i].timestamp) = ToDatetime(before[i].timestamp)
          /\ DOMAIN before[i] \subseteq DOMAIN after[i]
          /\ DOMAIN after[i] \subseteq DOMAIN before[i] \cup HitColumns

Wma(v, p) ==
    [t \in 1..Len(v) |->
        IF t < p \/ \E k \in 1..p : ~v[t - p + k].def THEN NaN
        ELSE Val(Sum([k \in 1..p |-> k * v[t - p + k].num], 1, p),
                 v[t].den * WeightSum(p))]

\* 2 * a - b, bar by bar
TwiceMinus(a, b) ==
    [t \in 1..Len(a) |->
        IF a[t].def /\ b[t].def
        THEN Val(2 * a[t].num * b[t].den - b[t].num * a[t].den, a[t].den * b[t].den)
        ELSE NaN]

\* WMA(2 * WMA(x, half) - WMA(x, full), smoothing)
Hull(x, half, full, smoothing) ==
    Wma(TwiceMinus(Wma(AsValues(x), half), Wma(AsValues(x), full)), smoothing)

\* the same values, NaN where the other is NaN
SameSeries(a, b) ==
    /\ Len(a) = Len(b)
    /\ \A t \in 1..Len(a) :
          /\ a[t].def = b[t].def
          /\ a[t].def => a[t].num * b[t].den = b[t].num * a[t].den

\* C25 as stated: the HMA is the WMA over round(sqrt(period)) bars of
\* 2 * WMA(period/2) - WMA(period).
C25_HullWithRoundedRoot ==
    (Computed /\ Len(historical_df) >= ind_values.period) =>
        LET period == ind_values.period
        IN  SameSeries(ind_values.hma,
                       Hull(Column(historical_df, "close"), period \div 2, period,
                            RoundSqrt(period)))

\* C25 amended: the windows are the whole parts int(period/2) and
\* int(sqrt(period)); a series shorter than the period gives NaN on every bar.
C25_HullWithWholeRoot ==
    Computed =>
        LET period == ind_values.period
        IN  IF Len(historical_df) < period
            THEN \A t \in 1..Len(historical_df) : ~ind_values.hma[t].def
            ELSE SameSeries(ind_values.hma,
                            Hull(Column(historical_df, "close"), period \div 2, period,
                                 ISqrt(period)))

\* period 3, where int(sqrt(3)) = 1 and round(sqrt(3)) = 2: the HMA has a
\* value at bar 3, which a last window of two bars could not give
C25_Witness ==
    /\ Computed
    /\ ind_values.period = 3
    /\ Len(historical_df) = MaxBars
    /\ ind_values.hma[3].def
    /\ ind_values.hma[3] # ind_values.hma[4]

\* ------------------------------------------------------------------------
\* Cooldown timestamps across evaluations (checked under SpecLive)
\* ------------------------------------------------------------------------

\* C26: an evaluation leaves the last-triggered timestamp of every key it
\* does not emit as it was (a trigger suppressed by cooldown included), sets
\* the timestamp of every key it emits to the evaluation time, so that the
\* stored timestamp of a key is always the time of its last emitted alert,
\* and emits every active key whose cooldown measured from that last
\* emitted alert has run out.
C26_SuppressedTriggerKeepsTimestamp ==
    [][ EvaluationStep =>
          LET tc      == TriggeredConditions(alert_config)
              tc_next == TriggeredConditions(alert_config')
              emitted == TriggerKeys(triggered_alerts')
              active  == Range(ActiveTriggers(alert_config.conditions, analysis_data',
                                              alert_config'.death_cross_active))
          IN  /\ \A k \in (DOMAIN tc \cup DOMAIN tc_next) \ emitted :
                    Has(tc, k) /\ Has(tc_next, k) /\ tc_next[k] = tc[k]
              /\ \A k \in emitted : Has(tc_next, k) /\ tc_next[k] = IsoFormat(now')
              /\ \A k \in DOMAIN last_emitted' :
                    Has(tc_next, k) /\ tc_next[k] = IsoFormat(last_emitted'[k])
              /\ ~raised' =>
                    \A k \in active \cap DOMAIN last_emitted :
                        now' >= last_emitted[k] + AlertCooldownMinutes(alert_config)
                            => k \in emitted ]_vars

\* C26 witness: the last evaluation found HiLo Sell active inside its
\* cooldown and suppressed it while it raised the Death Cross alert; the
\* HiLo Sell timestamp is still the time of its last emitted alert.
C26_Witness ==
    /\ n_evals >= 2
    /\ analysis_data.hilo_signal = "HiLo Sell"
    /\ ConditionEnabled(alert_config.conditions, "hilo_venda")
    /\ TriggerKeys(triggered_alerts) = {"CRUZ_DA_MORTE"}
    /\ Has(last_emitted, "HILO_VENDA")
    /\ last_emitted["HILO_VENDA"] < now
    /\ now < last_emitted["HILO_VENDA"] + AlertCooldownMinutes(alert_config)
    /\ TriggeredConditions(alert_config)["HILO_VENDA"]
          = IsoFormat(last_emitted["HILO_VENDA"])
    /\ TriggeredConditions(alert_config)["CRUZ_DA_MORTE"] = IsoFormat(now)

\* C27: an evaluation of the degraded snapshot (no kline data) emits no
\* alert for any enabled condition and changes neither the cooldown
\* timestamps nor the Filter Mode of the symbol.
C27_DegradedEvaluationIsSilent ==
    [][ (EvaluationStep /\ analysis_data' = DegradedSnapshot) =>
          /\ triggered_alerts' = <<>>
          /\ TriggeredConditions(alert_config') = TriggeredConditions(alert_config)
          /\ alert_config'.death_cross_active = alert_config.death_cross_active ]_vars

\* ------------------------------------------------------------------------
\* Backtester (backend/backtester.py): run_backtest
\*
\* The frame is represented by its number of bars and, for every bar the
\* loop visits, the signals whose condition holds on the window that ends
\* at that bar.
\* ------------------------------------------------------------------------

\* min_periods
MinPeriods == 226

\* the longest frame has MinPeriods + MaxExtraBars bars
MaxExtraBars == 2

\* the keys of signals_to_check, in the order of the dict
SignalNames ==
    << "RSI Sobrecompra (>= 70)", "RSI Sobrevenda (<= 30)",
       "Cruzamento de Alta (MACD)", "Cruzamento de Baixa (MACD)",
       "Cruz Dourada (MME 50/200)", "Cruz da Morte (MME 50/200)",
       "Sinal de Compra (HiLo)", "Sinal de Venda (HiLo)",
       "Preco Acima da Banda Bollinger", "Preco Abaixo da Banda Bollinger" >>

\* the signals the frames of the model switch on and off
SampleSignals ==
    { "RSI Sobrevenda (<= 30)", "Cruz da Morte (MME 50/200)",
      "Sinal de Venda (HiLo)" }

\* the frames run_backtest is called with
BacktestFrames ==
    { [len |-> n, signals |-> sg] :
        n \in (MinPeriods - 1)..(MinPeriods + MaxExtraBars),
        sg \in UNION { [MinPeriods..(m - 1) -> SUBSET SampleSignals] :
                         m \in (MinPeriods - 1)..(MinPeriods + MaxExtraBars) } }

\* a frame whose signals are given for exactly the bars the loop visits
WellFormedFrame(df) == DOMAIN df.signals = MinPeriods..(df.len - 1)

\* the number of values each indicator function returns (indicators.py):
\* calculate_rsi (rsi_series, 0, 0); calculate_bollinger_bands (upper_band,
\* lower_band, sma); calculate_hilo_signals (buy, sell, signal)
ReturnedValues ==
    [ calculate_rsi |-> 3, calculate_bollinger_bands |-> 3,
      calculate_hilo_signals |-> 3 ]

\* lines 225-228: the tuple assignments of the loop body, in order, with the
\* number of targets on the left-hand side
TupleAssignments ==
    << [f |-> "calculate_rsi", targets |-> 3],
       [f |-> "calculate_bollinger_bands", targets |-> 4],
       [f |-> "calculate_hilo_signals", targets |-> 3] >>

\* a tuple assignment whose targets do not match the returned tuple raises
\* ValueError
UnpackRaises ==
    \E k \in 1..Len(TupleAssignments) :
        ReturnedValues[TupleAssignments[k].f] # TupleAssignments[k].targets

\* the messages passed to output_callback
ErrorMessage(got) == [kind |-> "error", need |-> MinPeriods, got |-> got]
HeaderMessage == [kind |-> "header"]
SignalMessage(i, signal) == [kind |-> "signal", bar |-> i, signal |-> signal]
CompleteMessage == [kind |-> "complete"]

\* lines 254-262: the loop over signals_to_check, from its k-th item on
RECURSIVE CompareSignals(_, _, _, _, _)
CompareSignals(k, is_active, i, active, output) ==
    IF k > Len(SignalNames) THEN [active |-> active, output |-> output]
    ELSE LET signal == SignalNames[k]
         IN  IF signal \in is_active /\ signal \notin active
             THEN CompareSignals(k + 1, is_active, i, active \cup {signal},
                                 Append(output, SignalMessage(i, signal)))
             ELSE IF signal \notin is_active /\ signal \in active
             THEN CompareSignals(k + 1, is_active, i, active \ {signal}, output)
             ELSE CompareSignals(k + 1, is_active, i, active, output)

\* lines 205-215: the length check, the header and the empty active_signals
BacktestStart ==
    /\ bt_pc = "called"
    /\ IF bt_df.len < MinPeriods
       THEN /\ bt_output' = Append(bt_output, ErrorMessage(bt_df.len))
            /\ bt_pc' = "returned"
            /\ UNCHANGED <<bt_i, active_signals>>
       ELSE /\ bt_output' = Append(bt_output, HeaderMessage)
            /\ active_signals' = {}
            /\ bt_i' = MinPeriods
            /\ bt_pc' = "loop"
    /\ UNCHANGED <<bt_df, liveVars, historical_df, indVars, scanVars, limiterVars,
                   cacheVars>>

\* lines 218-262: one iteration of the loop over range(min_periods, len(df))
BacktestBar ==
    /\ bt_pc = "loop"
    /\ bt_i < bt_df.len
    /\ IF UnpackRaises
       THEN /\ bt_pc' = "raised"
            /\ UNCHANGED <<bt_i, active_signals, bt_output>>
       ELSE LET r == CompareSignals(1, bt_df.signals[bt_i], bt_i,
                                    active_signals, bt_output)
            IN  /\ active_signals' = r.active
                /\ bt_output' = r.output
                /\ bt_i' = bt_i + 1
                /\ UNCHANGED bt_pc
    /\ UNCHANGED <<bt_df, liveVars, historical_df, indVars, scanVars, limiterVars,
                   cacheVars>>

\* line 264: the loop is exhausted
BacktestComplete ==
    /\ bt_pc = "loop"
    /\ bt_i >= bt_df.len
    /\ bt_output' = Append(bt_output, CompleteMessage)
    /\ bt_pc' = "returned"
    /\ UNCHANGED <<bt_df, bt_i, active_signals, liveVars, historical_df, indVars,
                   scanVars, limiterVars, cacheVars>>

InitBacktest ==
    /\ LiveIdle
    /\ IndIdle
    /\ ScanIdle
    /\ LimiterIdle
    /\ CacheIdle
    /\ historical_df = <<>>
    /\ bt_df \in { df \in BacktestFrames : WellFormedFrame(df) }
    /\ bt_pc = "called"
    /\ bt_i = 0
    /\ active_signals = {}
    /\ bt_output = <<>>

NextBacktest == BacktestStart \/ BacktestBar \/ BacktestComplete

SpecBacktest == InitBacktest /\ [][NextBacktest]_vars

\* ------------------------------------------------------------------------
\* Claims about the backtester (checked under SpecBacktest)
\* ------------------------------------------------------------------------

\* the bars the loop of run_backtest has to evaluate
EvaluatedBars == MinPeriods..(bt_df.len - 1)

\* the signal was reported at the bar
Reported(i, signal) ==
    \E k \in 1..Len(bt_output) : bt_output[k] = SignalMessage(i, signal)

\* C28: when run_backtest has ended, a signal was reported at a bar exactly
\* when it is active at that bar and was not active at the bar evaluated
\* before it; while the loop runs, active_signals is the set of signals
\* active at the bar evaluated last; and a frame of fewer than 226 bars
\* gives the error message and nothing else.
C28_ReportsOnActivation ==
    /\ bt_pc \in {"returned", "raised"} =>
          IF bt_df.len < MinPeriods
          THEN bt_output = <<ErrorMessage(bt_df.len)>>
          ELSE \A i \in EvaluatedBars : \A k \in 1..Len(SignalNames) :
                  Reported(i, SignalNames[k]) <=>
                      /\ SignalNames[k] \in bt_df.signals[i]
                      /\ i > MinPeriods => SignalNames[k] \notin bt_df.signals[i - 1]
    /\ (bt_pc = "loop" /\ bt_i > MinPeriods) =>
          active_signals = bt_df.signals[bt_i - 1]

\* ------------------------------------------------------------------------
\* Rate limiter (backend/robust_services.py): BinanceRateLimiter
\*
\* wait_if_needed and set_manual_update_mode run under the limiter's lock
\* from their first statement to their last, the sleeps included, so each
\* call is one step whatever thread makes it.  The limits are attributes of
\* the limiter; the model runs a limiter with small limits.
\* ------------------------------------------------------------------------

\* self.limit_1min and self.limit_5min of the limiter the model runs
Limit1Min == 2
Limit5Min == 4

\* the lengths of the two windows, in seconds
Window1Min == 60
Window5Min == 300

\* the clock is read at multiples of ClockStep seconds, up to MaxClock
\* between the calls; at most MaxCalls calls are made
ClockStep == 30
MaxClock == 360
MaxCalls == 6

\* lines 34-35: while q and now - q[0] > window: q.popleft()
RECURSIVE PopExpired(_, _, _)
PopExpired(q, t, window) ==
    IF q # <<>> /\ t - q[1] > window THEN PopExpired(Tail(q), t, window) ELSE q

\* lines 38-39: the limit in force
CurrentLimit(limit, manual) == IF manual THEN limit \div 2 ELSE limit

\* lines 41-45 and 47-51: the time slept for one window
SleepTime(q, t, limit, window) ==
    IF Len(q) >= limit /\ window - (t - q[1]) > 0 THEN window - (t - q[1]) ELSE 0

\* wait_if_needed, lines 30-54.  time.sleep returns after the time asked
\* for or later; the two appends read the clock after the sleeps.
WaitIfNeeded ==
    /\ Len(admitted) < MaxCalls
    /\ LET t  == clock
           q1 == PopExpired(requests_1min, t, Window1Min)
           q5 == PopExpired(requests_5min, t, Window5Min)
           l1 == CurrentLimit(Limit1Min, manual_update_mode)
           l5 == CurrentLimit(Limit5Min, manual_update_mode)
           slept == SleepTime(q1, t, l1, Window1Min) + SleepTime(q5, t, l5, Window5Min)
       IN  \E late \in IF slept > 0 THEN {0, ClockStep} ELSE {0} :
              /\ clock' = t + slept + late
              /\ requests_1min' = Append(q1, clock')
              /\ requests_5min' = Append(q5, clock')
              /\ admitted' = Append(admitted,
                                    [t |-> clock', limit_1min |-> l1, limit_5min |-> l5])
    /\ UNCHANGED <<manual_update_mode, btVars, cacheVars, liveVars, historical_df,
                   indVars, scanVars>>

\* set_manual_update_mode(enabled), lines 56-67
SetManualUpdateMode ==
    /\ \E enabled \in BOOLEAN : manual_update_mode' = enabled
    /\ UNCHANGED <<clock, requests_1min, requests_5min, admitted, btVars, cacheVars,
                   liveVars, historical_df, indVars, scanVars>>

\* time passes between two calls
ClockTick ==
    /\ clock < MaxClock
    /\ clock' = clock + ClockStep
    /\ UNCHANGED <<requests_1min, requests_5min, manual_update_mode, admitted,
                   btVars, cacheVars, liveVars, historical_df, indVars, scanVars>>

InitLimiter ==
    /\ LiveIdle
    /\ IndIdle
    /\ ScanIdle
    /\ BacktestIdle
    /\ CacheIdle
    /\ historical_df = <<>>
    /\ LimiterIdle

NextLimiter == WaitIfNeeded \/ SetManualUpdateMode \/ ClockTick

SpecLimiter == InitLimiter /\ [][NextLimiter]_vars

\* ------------------------------------------------------------------------
\* Claims about the rate limiter (checked under SpecLimiter)
\* ------------------------------------------------------------------------

\* the number of requests admitted in the window of the given length that
\* ends with the j-th admitted request, that request included
WindowCount(j, window) ==
    Cardinality({ i \in 1..j : admitted[j].t - window < admitted[i].t })

\* C29: whatever calls were made and whenever manual-update mode was
\* switched, the requests admitted within 60 seconds up to any admitted
\* request are at most the 1-minute limit in force at that request, and
\* those within 300 seconds at most the 5-minute limit in force.
C29_WindowLimitsHold ==
    \A j \in 1..Len(admitted) :
        /\ WindowCount(j, Window1Min) <= admitted[j].limit_1min
        /\ WindowCount(j, Window5Min) <= admitted[j].limit_5min

\* ------------------------------------------------------------------------
\* Data cache (backend/robust_services.py): DataCache, and the cache clear
\* of CryptoApp._perform_manual_update (backend/main_app.py)
\*
\* A reader thread calls get, a writer thread calls set, and the manual
\* update thread clears the dict.  get and set hold DataCache.lock; the
\* clear does not take it, so it can run between any two statements of get.
\* ------------------------------------------------------------------------

\* the keys _generate_key gives, the ttl arguments (None is default_ttl) and
\* the data stored
CacheKeys == {"ticker", "klines"}
DefaultTtl == 300
Ttls == {60, DefaultTtl}
CacheData == {"d1"}

\* CachedData(data=data, timestamp=time.time())
CachedData(data, t) == [data |-> data, timestamp |-> t]

\* del d[key]
Del(d, key) == [k \in DOMAIN d \ {key} |-> d[k]]

\* get, lines 164-167: the lock is taken and `key not in self.cache` is tested
GetBegin ==
    /\ get_call.pc \in {"idle", "returned"}
    /\ cache_lock = "free"
    /\ \E key \in CacheKeys, ttl \in Ttls :
          IF ~Has(cache, key)
          THEN /\ get_call' = [pc |-> "returned", key |-> key, ttl |-> ttl,
                               cached |-> <<>>, out |-> [kind |-> "None", expired |-> FALSE]]
               /\ UNCHANGED cache_lock
          ELSE /\ get_call' = [pc |-> "subscript", key |-> key, ttl |-> ttl,
                               cached |-> <<>>, out |-> <<>>]
               /\ cache_lock' = "get"
    /\ UNCHANGED <<cache, limiterVars, btVars, liveVars, historical_df, indVars,
                   scanVars>>

\* get, line 168: cached = self.cache[key] raises KeyError when the key is
\* gone; the with statement releases the lock
GetSubscript ==
    /\ get_call.pc = "subscript"
    /\ IF Has(cache, get_call.key)
       THEN /\ get_call' = [get_call EXCEPT !.pc = "compare",
                                            !.cached = cache[get_call.key]]
            /\ UNCHANGED cache_lock
       ELSE /\ get_call' = [get_call EXCEPT !.pc = "raised",
                                            !.out = [kind |-> "KeyError"]]
            /\ cache_lock' = "free"
    /\ UNCHANGED <<cache, limiterVars, btVars, liveVars, historical_df, indVars,
                   scanVars>>

\* get, lines 169 and 172-173: the age is compared with ttl; a fresh entry
\* is returned
GetCompare ==
    /\ get_call.pc = "compare"
    /\ IF clock - get_call.cached.timestamp > get_call.ttl
       THEN /\ get_call' = [get_call EXCEPT !.pc = "delete"]
            /\ UNCHANGED cache_lock
       ELSE /\ get_call' = [get_call EXCEPT
                               !.pc = "returned",
                               !.out = [kind |-> "data", data |-> get_call.cached.data,
                                        age |-> clock - get_call.cached.timestamp]]
            /\ cache_lock' = "free"
    /\ UNCHANGED <<cache, limiterVars, btVars, liveVars, historical_df, indVars,
                   scanVars>>

\* get, lines 170-171: del self.cache[key] raises KeyError when the key is
\* gone; otherwise None is returned
GetDelete ==
    /\ get_call.pc = "delete"
    /\ IF Has(cache, get_call.key)
       THEN /\ cache' = Del(cache, get_call.key)
            /\ get_call' = [get_call EXCEPT !.pc = "returned",
                                            !.out = [kind |-> "None", expired |-> TRUE]]
       ELSE /\ get_call' = [get_call EXCEPT !.pc = "raised",
                                            !.out = [kind |-> "KeyError"]]
            /\ UNCHANGED cache
    /\ cache_lock' = "free"
    /\ UNCHANGED <<limiterVars, btVars, liveVars, historical_df, indVars, scanVars>>

\* set, lines 175-185, on the writer thread
CacheSet ==
    /\ cache_lock = "free"
    /\ \E key \in CacheKeys, data \in CacheData :
          cache' = (key :> CachedData(data, clock)) @@ cache
    /\ UNCHANGED <<cache_lock, get_call, limiterVars, btVars, liveVars, historical_df,
                   indVars, scanVars>>

\* main_app.py line 464: robust_services.data_cache.cache.clear()
CacheClear ==
    /\ cache' = <<>>
    /\ UNCHANGED <<cache_lock, get_call, limiterVars, btVars, liveVars, historical_df,
                   indVars, scanVars>>

InitCache ==
    /\ LiveIdle
    /\ IndIdle
    /\ ScanIdle
    /\ BacktestIdle
    /\ LimiterIdle
    /\ CacheIdle
    /\ historical_df = <<>>

NextCache ==
    \/ GetBegin \/ GetSubscript \/ GetCompare \/ GetDelete
    \/ CacheSet \/ CacheClear \/ ClockTick

SpecCache == InitCache /\ [][NextCache]_vars

\* ------------------------------------------------------------------------
\* Claims about the data cache (checked under SpecCache)
\* ------------------------------------------------------------------------

\* C30: whatever the interleaving of get, set and the cache clear, get does
\* not raise, the entry it returns is not older than the ttl of the call,
\* and when it answered None for an expired entry that entry was removed.
C30_GetIsSafe ==
    /\ get_call.pc # "raised"
    /\ get_call.pc = "returned" =>
          /\ get_call.out.kind = "data" => get_call.out.age <= get_call.ttl
          /\ (get_call.out.kind = "None" /\ get_call.out.expired) =>
                (Has(cache, get_call.key) =>
                    cache[get_call.key] # get_call.cached)

====
